---------------------------- MODULE Spec2Model ----------------------------
(***************************************************************************)
(* A model of the per-session Channel of the reliable datagram protocol    *)
(* (src/src/protocol/mod.rs): its receive path (receive, process_next),    *)
(* its send path (send_data, send_next) and the intra-protocol handlers    *)
(* (session request, heartbeat, ack, ack-all).                             *)
(*                                                                         *)
(* Sequence numbers are u16 and every arithmetic step on them wraps at     *)
(* SeqMod.  Options are sequences of length 0 or 1.  Byte strings are      *)
(* sequences of 0..255.                                                    *)
(***************************************************************************)
EXTENDS Integers, Sequences, FiniteSets, Bags, TLC

VARIABLES
    session,               \* Channel.session: Option<Session> (field some)
    buffer_size,           \* Channel.buffer_size
    recency_limit,         \* Channel.recency_limit
    fragment_state,        \* Channel.fragment_state
    send_queue,            \* Channel.send_queue: VecDeque<PendingPacket>
    receive_queue,         \* Channel.receive_queue: VecDeque<Packet>
    reordered_packets,     \* Channel.reordered_packets: BTreeMap<seq, Packet>
    next_client_sequence,  \* Channel.next_client_sequence
    next_server_sequence,  \* Channel.next_server_sequence
    last_client_ack,       \* Channel.last_client_ack
    last_server_ack,       \* Channel.last_server_ack
    last,                  \* the last public call: its arguments and what it returned
    delivered,             \* history: concatenation of every process_next return value
    received,              \* history: every sequenced packet receive has enqueued, in arrival order
    origin,                \* history: the two sequence counters of the initial state
    submitted,             \* history: every payload handed to send_data, in call order
    errors,                \* history: the errors process_next has logged
    disconnected,          \* history: process_packet has been handed a Disconnect
    channel_manager,       \* ChannelManager: the map's keys, the RwLock and each Mutex
    threads,               \* the host's threads: where each is in its use of the manager
    zones,                 \* GameServer.zones: each Zone's characters table (guid -> Character)
    requests               \* the game packets being handled: where each handler stands

vars == << session, buffer_size, recency_limit, fragment_state, send_queue,
           receive_queue, reordered_packets, next_client_sequence,
           next_server_sequence, last_client_ack, last_server_ack,
           last, delivered, received, origin, submitted,
           errors, disconnected, channel_manager, threads, zones, requests >>

channel == << session, buffer_size, recency_limit, fragment_state, send_queue,
              receive_queue, reordered_packets, next_client_sequence,
              next_server_sequence, last_client_ack, last_server_ack >>

-----------------------------------------------------------------------------
(* Program constants *)

\* SequenceNumber = u16
SeqMod == 65536

\* process_session_request: crc_length of every session it creates
SessionCrcLength == 3

\* process_session_request: buffer size advertised in SessionReply
ReplyBufferSize == 512

\* process_session_request: protocol version advertised in SessionReply
ReplyProtocolVersion == 3

-----------------------------------------------------------------------------
(* Bounds of the model *)

\* packets one behaviour receives in total
MaxReceive == 4

\* largest count handed to process_next and send_next
MaxCount == 3

\* the peer's sequenced packets carry origin.client + 0 .. origin.client + MaxPeerSeq
MaxPeerSeq == 2

\* largest recency_limit the window specification tries
MaxWindow == 3

\* sequenced packets one behaviour of the send path queues in total
MaxSend == 5

\* largest count the session, send path and duplex specifications hand to
\* send_next and process_next
MaxSmallCount == 2

\* packets one behaviour of the session specification receives in total
MaxSessionReceive == 3

\* sequenced packets one behaviour of the duplex specification queues and
\* receives in total
MaxDuplexTraffic == 3

\* packets one behaviour of the wire specification holds, has queued in reply
\* and has received in sequence, in total
MaxWireTraffic == 3

\* sequenced packets one behaviour of the echo specification queues, and
\* receives, in total
MaxEchoSend == 4

\* sequenced packets the peer makes up in one behaviour of the forge specification
MaxForged == 3

\* Data packets one behaviour of the bundle specification receives in total
MaxBundled == 2

\* threads of the host that use the channel manager
MaxThreads == 3

\* peer addresses the channel manager sees
MaxAddresses == 2

\* packets one behaviour of the retransmission specification receives in total
MaxRivalReceive == 4

\* highest sequence number, counted from the start, the peer retransmits
MaxRivalSeq == 1

\* packets one behaviour of the one-packet-per-call specification receives in total
MaxSingleReceive == 4

\* sequenced packets one behaviour of the send-loop specification queues in total
MaxLiveSend == 4

\* the count the host of the send-loop specification passes to every send_next call
MaxLiveCount == 1

\* sequenced packets one behaviour of the lap specification queues in total
MaxLapSend == 4

\* packets one behaviour of the flood specification receives in total
MaxFloodReceive == 3

\* players logged in to the game server
MaxPlayers == 1

\* game packets the server handles at the same time
MaxRequests == 2

-----------------------------------------------------------------------------
(* Wrapping u16 arithmetic *)

WrappingAdd(a, b) == (a + b) % SeqMod

WrappingSub(a, b) == (a - b + SeqMod) % SeqMod

-----------------------------------------------------------------------------
(* Packets *)

SessionRequest(v, id, size, app) ==
    [op |-> "SessionRequest", protocol_version |-> v, session_id |-> id,
     buffer_size |-> size, app_protocol |-> app]

SessionReply(id, seed, len, compression, encryption, size, v) ==
    [op |-> "SessionReply", session_id |-> id, crc_seed |-> seed, crc_length |-> len,
     allow_compression |-> compression, use_encryption |-> encryption,
     buffer_size |-> size, protocol_version |-> v]

Disconnect(id, reason) == [op |-> "Disconnect", session_id |-> id, reason |-> reason]

Heartbeat == [op |-> "Heartbeat"]

Data(s, d) == [op |-> "Data", seq |-> s, data |-> d]

DataFragment(s, d) == [op |-> "DataFragment", seq |-> s, data |-> d]

Ack(s) == [op |-> "Ack", acked |-> s]

AckAll(s) == [op |-> "AckAll", acked |-> s]

\* Packet::sequence_number
SequenceNumber(packet) ==
    IF packet.op \in {"Data", "DataFragment"} THEN << packet.seq >> ELSE << >>

IsSequenced(packet) == SequenceNumber(packet) # << >>

\* ProtocolOpCode::requires_session
RequiresSession(op) ==
    op \in {"MultiPacket", "Disconnect", "Heartbeat", "Data", "DataFragment", "Ack", "AckAll"}

\* PendingPacket::new
PendingPacket(packet) == [needs_send |-> TRUE, packet |-> packet]

\* Session absent (Channel::new)
NoSession ==
    [some |-> FALSE, session_id |-> 0, crc_length |-> 0, crc_seed |-> 0,
     allow_compression |-> FALSE, use_encryption |-> FALSE]

-----------------------------------------------------------------------------
(* Byte strings *)

BE32(n) == << (n \div 16777216) % 256, (n \div 65536) % 256, (n \div 256) % 256, n % 256 >>

FromBE32(b) == b[1] * 16777216 + b[2] * 65536 + b[3] * 256 + b[4]

-----------------------------------------------------------------------------
(* Fragment reassembler: reliable_data_ops::FragmentState *)

\* FragmentState::new
NoFragment == [active |-> FALSE, total_size |-> 0, collected |-> << >>, first_seq |-> 0]

FragmentResult(state, ok, out, err) == [state |-> state, ok |-> ok, out |-> out, err |-> err]

\* FragmentState::add: Ok(Some(packet)) is ok with out = <<packet>>, Ok(None) is ok
\* with out = <<>>, Err(e) is ~ok with err = e.
FragmentStateAdd(fs, packet) ==
    IF packet.op = "Data" THEN
        IF fs.active
        THEN FragmentResult(fs, FALSE, << >>, "FragmentInterleaved")
        ELSE FragmentResult(fs, TRUE, << packet >>, "")
    ELSE IF packet.op = "DataFragment" THEN
        IF ~fs.active /\ Len(packet.data) < 4
        THEN FragmentResult(fs, FALSE, << >>, "TruncatedPacket")
        ELSE
            LET total == IF fs.active THEN fs.total_size ELSE FromBE32(packet.data)
                first == IF fs.active THEN fs.first_seq ELSE packet.seq
                buf   == IF fs.active THEN fs.collected \o packet.data
                         ELSE SubSeq(packet.data, 5, Len(packet.data))
            IN  IF Len(buf) > total
                THEN FragmentResult(fs, FALSE, << >>, "FragmentOverflow")
                ELSE IF Len(buf) = total
                THEN FragmentResult(NoFragment, TRUE, << Data(first, buf) >>, "")
                ELSE FragmentResult([active |-> TRUE, total_size |-> total,
                                     collected |-> buf, first_seq |-> first],
                                    TRUE, << >>, "")
    ELSE FragmentResult(fs, TRUE, << packet >>, "")

-----------------------------------------------------------------------------
(* Bundle codec: reliable_data_ops::unbundle_reliable_data *)

RECURSIVE UnbundleFrom(_, _, _)
UnbundleFrom(data, i, acc) ==
    IF i > Len(data) THEN [ok |-> TRUE, msgs |-> acc]
    ELSE
        LET long  == data[i] = 255
            start == IF long THEN i + 3 ELSE i + 1
            size  == IF long
                     THEN (IF i + 2 <= Len(data) THEN data[i + 1] * 256 + data[i + 2] ELSE 0)
                     ELSE data[i]
        IN  IF (long /\ i + 2 > Len(data)) \/ start + size - 1 > Len(data)
            THEN [ok |-> FALSE, msgs |-> << >>]
            ELSE UnbundleFrom(data, start + size,
                              Append(acc, SubSeq(data, start, start + size - 1)))

UnbundleReliableData(data) ==
    IF Len(data) >= 2 /\ data[1] = 0 /\ data[2] = 25
    THEN UnbundleFrom(data, 3, << >>)
    ELSE [ok |-> TRUE, msgs |-> << data >>]

-----------------------------------------------------------------------------
(* Fragmenter: reliable_data_ops::fragment_data *)

EnvelopeOverhead(sess) ==
    2 + 2 + (IF sess.some THEN sess.crc_length ELSE 0)
          + (IF sess.some /\ sess.allow_compression THEN 1 ELSE 0) + 1

RECURSIVE Chunks(_, _)
Chunks(bytes, room) ==
    IF Len(bytes) = 0 THEN << >>
    ELSE IF Len(bytes) <= room THEN << bytes >>
    ELSE << SubSeq(bytes, 1, room) >> \o Chunks(SubSeq(bytes, room + 1, Len(bytes)), room)

\* Ok(packets) is ok; each packet is DataPacket::Single or DataPacket::Fragment.
FragmentData(size, sess, data) ==
    LET room == size - EnvelopeOverhead(sess)
    IN  IF Len(data) <= room
        THEN [ok |-> TRUE, packets |-> << [kind |-> "Single", data |-> data] >>]
        ELSE IF room <= 4
        THEN [ok |-> FALSE, packets |-> << >>]
        ELSE LET chunks == Chunks(BE32(Len(data)) \o data, room)
             IN  [ok |-> TRUE,
                  packets |-> [i \in 1..Len(chunks) |-> [kind |-> "Fragment", data |-> chunks[i]]]]

-----------------------------------------------------------------------------
(* Channel: helpers *)

\* save_for_reorder keeping every packet that is not the expected one
SaveForReorderAlways(next_client, limit, sequence_number) ==
    sequence_number # next_client

\* save_for_reorder keeping every packet that is ahead of the expected one
SaveForReorderAnyAhead(next_client, limit, sequence_number) ==
    /\ sequence_number # next_client
    /\ WrappingSub(sequence_number, next_client) < SeqMod \div 2

\* Channel::save_for_reorder
SaveForReorder(next_client, limit, sequence_number) ==
    LET max_sequence_number == WrappingAdd(next_client, limit)
    IN  IF max_sequence_number > next_client
        THEN sequence_number <= max_sequence_number /\ sequence_number > next_client
        ELSE sequence_number > next_client \/ sequence_number < max_sequence_number

\* Channel::should_client_ack
ShouldClientAck(limit, next_server, max, pending) ==
    LET min_sequence_number == WrappingSub(next_server, limit)
    IN  IF min_sequence_number < max
        THEN min_sequence_number <= pending /\ pending <= max
        ELSE min_sequence_number <= pending \/ pending <= max

\* BTreeMap::insert (an existing key's value is replaced)
MapInsert(map, key, value) ==
    [k \in (DOMAIN map) \cup {key} |-> IF k = key THEN value ELSE map[k]]

\* BTreeMap::remove
MapRemove(map, key) == [k \in (DOMAIN map) \ {key} |-> map[k]]

\* acknowledge_one queueing an AckAll in place of the Ack
AcknowledgeOneAsAll(queue, sequence_number) ==
    Append(queue, PendingPacket(AckAll(sequence_number)))

\* Channel::acknowledge_one
AcknowledgeOne(queue, sequence_number) == Append(queue, PendingPacket(Ack(sequence_number)))

\* acknowledge_all naming the next expected sequence number, not the last accepted
AcknowledgeAllExpected(queue, sequence_number) ==
    Append(queue, PendingPacket(AckAll(WrappingAdd(sequence_number, 1))))

\* Channel::acknowledge_all
AcknowledgeAll(queue, sequence_number) == Append(queue, PendingPacket(AckAll(sequence_number)))

\* process_ack without the acceptance test: every Ack retires its entry
ProcessAckNoWindow(queue, limit, next_server, acked_sequence) ==
    [i \in 1..Len(queue) |->
        IF SequenceNumber(queue[i].packet) = << acked_sequence >>
        THEN [queue[i] EXCEPT !.needs_send = FALSE]
        ELSE queue[i]]

\* Channel::process_ack
ProcessAck(queue, limit, next_server, acked_sequence) ==
    IF ShouldClientAck(limit, next_server, WrappingSub(next_server, 1), acked_sequence)
    THEN [i \in 1..Len(queue) |->
            IF SequenceNumber(queue[i].packet) = << acked_sequence >>
            THEN [queue[i] EXCEPT !.needs_send = FALSE]
            ELSE queue[i]]
    ELSE queue

\* process_ack_all without the window test: every entry up to acked_sequence retires
ProcessAckAllNoWindow(queue, limit, next_server, acked_sequence) ==
    [i \in 1..Len(queue) |->
        IF /\ SequenceNumber(queue[i].packet) # << >>
           /\ queue[i].packet.seq <= acked_sequence
        THEN [queue[i] EXCEPT !.needs_send = FALSE]
        ELSE queue[i]]

\* Channel::process_ack_all
ProcessAckAll(queue, limit, next_server, acked_sequence) ==
    [i \in 1..Len(queue) |->
        IF /\ SequenceNumber(queue[i].packet) # << >>
           /\ ShouldClientAck(limit, next_server, acked_sequence, queue[i].packet.seq)
        THEN [queue[i] EXCEPT !.needs_send = FALSE]
        ELSE queue[i]]

\* Channel::process_heartbeat
ProcessHeartbeat(queue) == Append(queue, PendingPacket(Heartbeat))

\* process_session_request storing a session whose crc_length is that of a full CRC-32
NewSessionFullCrc(session_id, seed) ==
    [some |-> TRUE, session_id |-> session_id, crc_length |-> 4,
     crc_seed |-> seed, allow_compression |-> FALSE, use_encryption |-> FALSE]

\* Channel::process_session_request: the session it stores
NewSession(session_id, seed) ==
    [some |-> TRUE, session_id |-> session_id, crc_length |-> SessionCrcLength,
     crc_seed |-> seed, allow_compression |-> FALSE, use_encryption |-> FALSE]

\* process_session_request starting the new session with an emptied send_queue
ProcessSessionRequestFreshQueue(queue, session_id, seed) ==
    << PendingPacket(SessionReply(session_id, seed, SessionCrcLength, FALSE, FALSE,
                                  ReplyBufferSize, ReplyProtocolVersion)) >>

\* Channel::process_session_request: the reply it queues
ProcessSessionRequest(queue, session_id, seed) ==
    LET s == NewSession(session_id, seed)
    IN  Append(queue, PendingPacket(SessionReply(session_id, s.crc_seed, s.crc_length,
                                                 s.allow_compression, s.use_encryption,
                                                 ReplyBufferSize, ReplyProtocolVersion)))

-----------------------------------------------------------------------------
(* Channel::process_next, the loop over at most count packets.  st holds the *)
(* fields the loop touches and its two locals needs_new_ack (ack) and        *)
(* packet_to_process (ptp).                                                  *)

RECURSIVE ProcessLoop(_, _, _)
ProcessLoop(st, limit, k) ==
    IF k = 0 \/ st.rq = << >> THEN st
    ELSE
        LET packet == Head(st.rq)
            popped == [st EXCEPT !.rq = Tail(st.rq)]
        IN  IF SequenceNumber(packet) # << >> /\ packet.seq # st.ncs
            THEN \* out of order: keep it when recent, ack it, continue
                ProcessLoop(
                    [popped EXCEPT
                        !.ro = IF SaveForReorder(st.ncs, limit, packet.seq)
                               THEN MapInsert(@, packet.seq, packet) ELSE @,
                        !.sq = AcknowledgeOne(@, packet.seq)],
                    limit, k - 1)
            ELSE
                LET next == WrappingAdd(st.ncs, 1)
                    acc  == IF SequenceNumber(packet) = << >> THEN popped
                            ELSE [popped EXCEPT
                                    !.lsa = packet.seq,
                                    !.ncs = next,
                                    !.ack = TRUE,
                                    !.ro  = IF next \in DOMAIN @ THEN MapRemove(@, next) ELSE @,
                                    !.rq  = IF next \in DOMAIN st.ro
                                            THEN << st.ro[next] >> \o @ ELSE @]
                    r    == FragmentStateAdd(acc.fs, packet)
                IN  ProcessLoop(
                        [acc EXCEPT !.fs  = r.state,
                                    !.ptp = IF r.ok THEN r.out ELSE @,
                                    !.errs = IF r.ok THEN @ ELSE Append(@, r.err)],
                        limit, k - 1)

-----------------------------------------------------------------------------
(* The public calls *)

CallRecord(call, count, arg, out, processed, acked, handed, ok) ==
    [call |-> call, count |-> count, arg |-> arg, out |-> out, processed |-> processed,
     acked |-> acked, handed |-> handed, ok |-> ok]

NoCall == CallRecord("new", 0, << >>, << >>, << >>, FALSE, << >>, TRUE)

\* Channel::receive, for a datagram that deserialize_packet decodes to packets
Receive(packets) ==
    /\ receive_queue' = receive_queue \o packets
    /\ received' = received \o SelectSeq(packets, IsSequenced)
    /\ last' = CallRecord("receive", Len(packets), << >>, << >>, << >>, FALSE, << >>, TRUE)
    /\ UNCHANGED << session, buffer_size, recency_limit, fragment_state, send_queue,
                    reordered_packets, next_client_sequence, next_server_sequence,
                    last_client_ack, last_server_ack, delivered, origin, submitted,
                    errors, disconnected, channel_manager, threads, zones, requests >>

\* process_next handing a Data payload to the caller as it is, bundle or not
ReturnedRaw(ptp) ==
    IF ptp # << >> /\ ptp[1].op = "Data" THEN << ptp[1].data >> ELSE << >>

\* Channel::process_next: the packets it returns for packet_to_process
Returned(ptp) ==
    IF ptp # << >> /\ ptp[1].op = "Data"
    THEN LET unbundled_packets == UnbundleReliableData(ptp[1].data)
         IN  IF unbundled_packets.ok THEN unbundled_packets.msgs ELSE << >>
    ELSE << >>

\* Channel::process_next; seed is the value random::<CrcSeed>() returns
ProcessNext(count, seed) ==
    LET st0 == [rq |-> receive_queue, ro |-> reordered_packets,
                ncs |-> next_client_sequence, lsa |-> last_server_ack,
                sq |-> send_queue, fs |-> fragment_state,
                ack |-> FALSE, ptp |-> << >>, errs |-> << >>]
        st  == ProcessLoop(st0, recency_limit, count)
        sq1 == IF st.ack THEN AcknowledgeAll(st.sq, st.lsa) ELSE st.sq
        op  == IF st.ptp = << >> THEN "" ELSE st.ptp[1].op
        pkt == st.ptp[1]
        \* Channel::process_packet
        sq2 == CASE op = "SessionRequest" -> ProcessSessionRequest(sq1, pkt.session_id, seed)
                 [] op = "Heartbeat"      -> ProcessHeartbeat(sq1)
                 [] op = "Ack"            -> ProcessAck(sq1, recency_limit,
                                                        next_server_sequence, pkt.acked)
                 [] op = "AckAll"         -> ProcessAckAll(sq1, recency_limit,
                                                           next_server_sequence, pkt.acked)
                 [] OTHER                 -> sq1
        out == Returned(st.ptp)
    IN  /\ receive_queue' = st.rq
        /\ reordered_packets' = st.ro
        /\ next_client_sequence' = st.ncs
        /\ last_server_ack' = st.lsa
        /\ fragment_state' = st.fs
        /\ send_queue' = sq2
        /\ session' = IF op = "SessionRequest" THEN NewSession(pkt.session_id, seed)
                      ELSE session
        /\ buffer_size' = IF op = "SessionRequest" THEN pkt.buffer_size ELSE buffer_size
        /\ delivered' = delivered \o out
        /\ last' = CallRecord("process_next", count, << >>, out, st.ptp, st.ack, << >>, TRUE)
        /\ errors' = errors \cup { st.errs[i] : i \in 1..Len(st.errs) }
        /\ disconnected' = (disconnected \/ op = "Disconnect")
        /\ UNCHANGED << channel_manager, threads, zones, requests >>
        /\ UNCHANGED << recency_limit, next_server_sequence, last_client_ack,
                        received, origin, submitted >>

\* next_server_sequence incrementing without the wrap
NextServerSequenceNoWrap(n) == n + 1

\* Channel::next_server_sequence: the counter after one post-increment
NextServerSequence(n) == WrappingAdd(n, 1)

\* send_data wrapping every packet of the fragmenter as DataFragment
RECURSIVE SendLoopAllFragments(_, _, _)
SendLoopAllFragments(queue, n, packets) ==
    IF packets = << >> THEN [sq |-> queue, nss |-> n]
    ELSE SendLoopAllFragments(
             Append(queue, PendingPacket(DataFragment(n, Head(packets).data))),
             NextServerSequence(n), Tail(packets))

\* send_data wrapping every packet of the fragmenter as Data
RECURSIVE SendLoopAllData(_, _, _)
SendLoopAllData(queue, n, packets) ==
    IF packets = << >> THEN [sq |-> queue, nss |-> n]
    ELSE SendLoopAllData(Append(queue, PendingPacket(Data(n, Head(packets).data))),
                         NextServerSequence(n), Tail(packets))

\* Channel::send_data, the loop over the fragmenter's packets
RECURSIVE SendLoop(_, _, _)
SendLoop(queue, n, packets) ==
    IF packets = << >> THEN [sq |-> queue, nss |-> n]
    ELSE LET packet == Head(packets)
             sequenced_packet == IF packet.kind = "Fragment"
                                 THEN DataFragment(n, packet.data)
                                 ELSE Data(n, packet.data)
         IN  SendLoop(Append(queue, PendingPacket(sequenced_packet)),
                      NextServerSequence(n), Tail(packets))

\* Channel::send_data (fragment_data's Err panics in expect: no step)
SendData(data) ==
    LET fragments == FragmentData(buffer_size, session, data)
        r == SendLoop(send_queue, next_server_sequence, fragments.packets)
    IN  /\ fragments.ok
        /\ send_queue' = r.sq
        /\ next_server_sequence' = r.nss
        /\ last' = CallRecord("send_data", Len(fragments.packets), data, << >>, << >>,
                              FALSE, << >>, TRUE)
        /\ submitted' = Append(submitted, data)
        /\ UNCHANGED << session, buffer_size, recency_limit, fragment_state, receive_queue,
                        reordered_packets, next_client_sequence, last_client_ack,
                        last_server_ack, delivered, received, origin, errors, disconnected,
                        channel_manager, threads, zones, requests >>

NeedsSend(pending) == pending.needs_send

\* send_next without the retain: acknowledged entries stay in the queue
RetainedAll(queue) == queue

\* Channel::send_next: the queue after retain
Retained(queue) == SelectSeq(queue, NeedsSend)

\* send_next marking every packet it walks over as sent, sequenced or not
WalkedMarksAll(queue, count) ==
    [i \in 1..Len(queue) |->
        IF i <= count THEN [queue[i] EXCEPT !.needs_send = FALSE] ELSE queue[i]]

\* Channel::send_next: the queue after the walk over its first packets
Walked(queue, count) ==
    [i \in 1..Len(queue) |->
        IF i <= count /\ SequenceNumber(queue[i].packet) = << >>
        THEN [queue[i] EXCEPT !.needs_send = FALSE]
        ELSE queue[i]]

\* Channel::send_next: packets_to_send
PacketsToSend(queue, count) ==
    LET n == IF count < Len(queue) THEN count ELSE Len(queue)
    IN  [i \in 1..n |-> queue[i].packet]

\* Channel::send_next; ok is whether serialize_packets returns Ok
SendNext(count, ok) ==
    LET kept == Retained(send_queue)
    IN  /\ send_queue' = Walked(kept, count)
        /\ last' = CallRecord("send_next", count, << >>, << >>, << >>, FALSE,
                              PacketsToSend(kept, count), ok)
        /\ UNCHANGED << session, buffer_size, recency_limit, fragment_state, receive_queue,
                        reordered_packets, next_client_sequence, next_server_sequence,
                        last_client_ack, last_server_ack, delivered, received, origin,
                        submitted, errors, disconnected, channel_manager, threads,
                        zones, requests >>

-----------------------------------------------------------------------------
(* ChannelManager = RwLock<HashMap<SocketAddr, Mutex<Channel>>>: keys are the  *)
(* addresses in the map, readers and writer the holders of the RwLock's       *)
(* guards, owner[a] the holder of the MutexGuard of the channel at address a. *)

Threads == 1..MaxThreads

Addresses == 1..MaxAddresses

\* a thread that holds no guard
Idle == [pc |-> "idle", addr |-> 0]

NewManager ==
    [keys |-> {}, readers |-> {}, writer |-> {}, owner |-> [a \in Addresses |-> {}]]

\* RwLock::read succeeds: no thread holds the write guard
CanRead(manager) == manager.writer = {}

\* RwLock::write handing out the write guard while read guards are held
CanWriteBesideReaders(manager) == manager.writer = {}

\* RwLock::write succeeds: no thread holds a read guard or the write guard
CanWrite(manager) == manager.writer = {} /\ manager.readers = {}

\* Mutex::lock succeeds: no thread holds the guard
CanLock(manager, a) == manager.owner[a] = {}

-----------------------------------------------------------------------------
(* Game server: zones and their characters tables, mounts.  zones[z] is the  *)
(* characters GuidTable of the zone with guid z, a map from a character's    *)
(* guid to the Character, of which the model keeps mount_id.  GuidTable and  *)
(* GameServer::zone_with_character are not in the sources at hand: a table   *)
(* is a map behind an RwLock, and zone_with_character is the zone whose      *)
(* table holds the guid.  Each step below is what a handler does under one   *)
(* hold of a table's lock.                                                   *)

Players == 1..MaxPlayers

\* guids of the zones in GameServer.zones
ZoneGuids == {1, 2}

\* destination_zone of the doors: a zone, or a guid that no zone has
DoorDestinations == {1, 2, 3}

\* ids in GameServer.mounts
MountIds == {1}

\* mount ids a MountSpawn packet may name
RequestedMountIds == {1, 2}

\* Character, with mount_id: Option<u32>
Character(mount_id) == [mount_id |-> mount_id]

\* every player is in zone 1, dismounted
NewZones ==
    [z \in ZoneGuids |-> IF z = 1 THEN [p \in Players |-> Character(<< >>)] ELSE << >>]

\* a handler: where it stands (pc), the player it serves, the zone it looked up,
\* the destination zone or mount id of the request, the Character it carries
Request(pc, player, zone, arg, character) ==
    [pc |-> pc, player |-> player, zone |-> zone, arg |-> arg, character |-> character]

\* the handlers that are running, as a bag of Requests; the others are idle
NoRequests == EmptyBag

\* a handler starts on a packet
Started(running, r) == running (+) SetToBag({r})

\* a handler returns
Finished(running, r) == running (-) SetToBag({r})

\* a handler moves on
Moved(running, r, next) == (running (-) SetToBag({r})) (+) SetToBag({next})

\* what a handler returned: count is the length of the Ok vector (an empty result
\* is 0), ok is FALSE for Err(CorruptedPacket)
GameReturn(call, player, arg, count, ok) ==
    CallRecord(call, count, << player, arg >>, << >>, << >>, FALSE, << >>, ok)

\* GameServer::zone_with_character and zone_with_player: Option<u64>
ZoneWithCharacter(zs, guid) ==
    LET found == { z \in DOMAIN zs : guid \in DOMAIN zs[z] }
    IN  IF found = {} THEN << >>
        ELSE << CHOOSE z \in found : \A y \in found : z <= y >>

\* interact_with_character with a door as its target, up to the call of
\* teleport_to_zone; destination is the door's destination_zone
InteractWithCharacter(requester, destination) ==
    LET source_zone_guid == ZoneWithCharacter(zones, requester)
    IN  /\ BagCardinality(requests) < MaxRequests
        /\ IF source_zone_guid = << >>
           THEN /\ last' = GameReturn("interact_with_character", requester, destination,
                                      0, FALSE)
                /\ UNCHANGED requests
           ELSE IF source_zone_guid[1] = destination
           THEN /\ last' = GameReturn("interact_with_character", requester, destination,
                                      1, TRUE)
                /\ UNCHANGED requests
           ELSE /\ requests' = Started(requests,
                      Request("teleporting", requester, source_zone_guid[1], destination,
                              << >>))
                /\ UNCHANGED last
        /\ UNCHANGED zones

\* teleport_to_zone: the character is removed from the source zone's table
TeleportRemove(r) ==
    /\ BagIn(r, requests)
    /\ r.pc = "teleporting"
    /\ zones' = [zones EXCEPT ![r.zone] = MapRemove(@, r.player)]
    /\ requests' = Moved(requests, r,
          [r EXCEPT !.pc = "removed",
                    !.character = IF r.player \in DOMAIN zones[r.zone]
                                  THEN << zones[r.zone][r.player] >> ELSE << >>])
    /\ UNCHANGED last

\* teleport_to_zone: the character is inserted into the destination zone's table
TeleportInsert(r) ==
    /\ BagIn(r, requests)
    /\ r.pc = "removed"
    /\ zones' = IF r.arg \in DOMAIN zones /\ r.character # << >>
                THEN [zones EXCEPT ![r.arg] = MapInsert(@, r.player, r.character[1])]
                ELSE zones
    /\ requests' = Finished(requests, r)
    /\ last' = GameReturn("interact_with_character", r.player, r.arg,
                          IF r.arg \in DOMAIN zones THEN 1 ELSE 0, TRUE)

\* process_mount_spawn up to the look-up of the sender's zone
ProcessMountSpawn(sender, mount_id) ==
    LET zone_guid == ZoneWithCharacter(zones, sender)
    IN  /\ BagCardinality(requests) < MaxRequests
        /\ IF mount_id \notin MountIds \/ zone_guid = << >>
           THEN /\ last' = GameReturn("process_mount_spawn", sender, mount_id, 0, FALSE)
                /\ UNCHANGED requests
           ELSE /\ requests' = Started(requests,
                      Request("mounting", sender, zone_guid[1], mount_id, << >>))
                /\ UNCHANGED last
        /\ UNCHANGED zones

\* process_mount_spawn without the test for a character that is already mounted
MountSpawnApplyRemount(r) ==
    /\ BagIn(r, requests)
    /\ r.pc = "mounting"
    /\ requests' = Finished(requests, r)
    /\ IF r.player \in DOMAIN zones[r.zone]
       THEN /\ zones' = [zones EXCEPT ![r.zone][r.player].mount_id = << r.arg >>]
            /\ last' = GameReturn("process_mount_spawn", r.player, r.arg, 1, TRUE)
       ELSE /\ UNCHANGED zones
            /\ last' = GameReturn("process_mount_spawn", r.player, r.arg, 0, FALSE)

\* process_mount_spawn: the character is looked up in the zone and mounted
MountSpawnApply(r) ==
    /\ BagIn(r, requests)
    /\ r.pc = "mounting"
    /\ requests' = Finished(requests, r)
    /\ IF r.player \in DOMAIN zones[r.zone] /\ zones[r.zone][r.player].mount_id = << >>
       THEN /\ zones' = [zones EXCEPT ![r.zone][r.player].mount_id = << r.arg >>]
            /\ last' = GameReturn("process_mount_spawn", r.player, r.arg, 1, TRUE)
       ELSE /\ UNCHANGED zones
            /\ last' = GameReturn("process_mount_spawn", r.player, r.arg, 0, FALSE)

\* process_dismount up to the look-up of the sender's zone
ProcessDismount(sender) ==
    LET zone_guid == ZoneWithCharacter(zones, sender)
    IN  /\ BagCardinality(requests) < MaxRequests
        /\ IF zone_guid = << >>
           THEN /\ last' = GameReturn("process_dismount", sender, 0, 0, FALSE)
                /\ UNCHANGED requests
           ELSE /\ requests' = Started(requests,
                      Request("dismounting", sender, zone_guid[1], 0, << >>))
                /\ UNCHANGED last
        /\ UNCHANGED zones

\* process_dismount: the character is looked up in the zone and dismounted
DismountApply(r) ==
    /\ BagIn(r, requests)
    /\ r.pc = "dismounting"
    /\ requests' = Finished(requests, r)
    /\ IF r.player \notin DOMAIN zones[r.zone]
       THEN /\ UNCHANGED zones
            /\ last' = GameReturn("process_dismount", r.player, 0, 0, FALSE)
       ELSE LET mount_id == zones[r.zone][r.player].mount_id
            IN  IF mount_id = << >>
                THEN /\ UNCHANGED zones
                     /\ last' = GameReturn("process_dismount", r.player, 0, 0, TRUE)
                ELSE /\ zones' = [zones EXCEPT ![r.zone][r.player].mount_id = << >>]
                     /\ last' = GameReturn("process_dismount", r.player, 0,
                                           IF mount_id[1] \in MountIds THEN 1 ELSE 0,
                                           TRUE)

-----------------------------------------------------------------------------
(* Inputs *)

\* the payload the peer sends under sequence number s
PeerPayload(s) == << 65 + (s % 16) >>

\* the d-th sequence number of the peer, counted from 0
PeerSeq(d) == WrappingAdd(origin.client, d)

\* the peer's sequenced Data packets
PeerData == { Data(PeerSeq(d), PeerPayload(PeerSeq(d))) : d \in 0..MaxPeerSeq }

Counts == 1..MaxCount

SmallCounts == 1..MaxSmallCount

CrcSeeds == {7}

\* initial values of the sequence counters: a fresh channel, and one about to wrap
StartSeqs == {0, SeqMod - 2}

RecencyLimits == {1, 2}

-----------------------------------------------------------------------------
(* Receive path: the peer's Data packets in any order, with duplicates *)

\* Channel::new, after which origin.client packets have been delivered
InitChannel(client, server, limit, size) ==
    /\ session = NoSession
    /\ buffer_size = size
    /\ recency_limit = limit
    /\ fragment_state = NoFragment
    /\ send_queue = << >>
    /\ receive_queue = << >>
    /\ reordered_packets = << >>
    /\ next_client_sequence = client
    /\ next_server_sequence = server
    /\ last_client_ack = 0
    /\ last_server_ack = IF client = 0 THEN 0 ELSE WrappingSub(client, 1)
    /\ last = NoCall
    /\ delivered = << >>
    /\ received = << >>
    /\ origin = [client |-> client, server |-> server]
    /\ submitted = << >>
    /\ errors = {}
    /\ disconnected = FALSE
    /\ channel_manager = NewManager
    /\ threads = [t \in Threads |-> Idle]
    /\ zones = NewZones
    /\ requests = NoRequests

Init ==
    \E c \in StartSeqs, w \in RecencyLimits : InitChannel(c, 0, w, ReplyBufferSize)

ReceiveData ==
    /\ Len(received) < MaxReceive
    /\ \E p \in PeerData : Receive(<< p >>)

ProcessNextCall ==
    /\ receive_queue # << >>
    /\ \E count \in Counts, seed \in CrcSeeds : ProcessNext(count, seed)

Next == ReceiveData \/ ProcessNextCall

Spec == Init /\ [][Next]_vars

-----------------------------------------------------------------------------
(* Recency window: save_for_reorder applied around every wrap boundary *)

WindowStarts == {0, 1, SeqMod \div 2 - 1, SeqMod - 3, SeqMod - 2, SeqMod - 1}

InitWindow ==
    \E c \in WindowStarts, w \in 1..MaxWindow : InitChannel(c, 0, w, ReplyBufferSize)

\* a call of save_for_reorder(s): last.count is s, last.ok the value returned
SaveForReorderCall ==
    \E d \in 0..(MaxWindow + 2) :
        LET s == WrappingAdd(WrappingSub(next_client_sequence, 1), d)
        IN  /\ last' = CallRecord("save_for_reorder", s, << >>, << >>, << >>, FALSE, << >>,
                                  SaveForReorder(next_client_sequence, recency_limit, s))
            /\ UNCHANGED << channel, delivered, received, origin, submitted, errors,
                            disconnected, channel_manager, threads, zones, requests >>

NextWindow == SaveForReorderCall

SpecWindow == InitWindow /\ [][NextWindow]_vars

-----------------------------------------------------------------------------
(* Session: handshake requests, heartbeats and the first Data packets *)

SessionIds == {48879, 1}

RequestedBufferSizes == {512, 256}

ProtocolVersions == {3, 2}

SessionSeeds == {7, 11}

SessionRequests ==
    { SessionRequest(v, id, size, "LoginUdp_9") :
        v \in ProtocolVersions, id \in SessionIds, size \in RequestedBufferSizes }

InitSession == InitChannel(0, 0, 2, ReplyBufferSize)

ReceiveSessionRequest ==
    /\ Len(receive_queue) + Len(send_queue) < MaxSessionReceive
    /\ \E p \in SessionRequests : Receive(<< p >>)

ReceiveHeartbeat ==
    /\ Len(receive_queue) + Len(send_queue) < MaxSessionReceive
    /\ Receive(<< Heartbeat >>)

ReceiveFirstData ==
    /\ Len(receive_queue) + Len(send_queue) < MaxSessionReceive
    /\ Len(received) < 1
    /\ Receive(<< Data(0, PeerPayload(0)) >>)

ProcessNextSession ==
    /\ receive_queue # << >>
    /\ \E count \in SmallCounts, seed \in SessionSeeds : ProcessNext(count, seed)

NextSession ==
    ReceiveSessionRequest \/ ReceiveHeartbeat \/ ReceiveFirstData \/ ProcessNextSession

SpecSession == InitSession /\ [][NextSession]_vars

-----------------------------------------------------------------------------
(* Send path: payloads queued, sent, acknowledged by the peer *)

\* n bytes 1, 2, ..., n
Bytes(n) == [i \in 1..n |-> i]

\* initial buffer sizes: small, so that short payloads fragment
InitBufferSizes == {12}

\* a payload that fits one packet, and one that takes three fragments
SendPayloads == { Bytes(3), Bytes(17) }

\* initial next_server_sequence and recency_limit: ten packets into a session
\* with a window of five, and two packets before the counter wraps
SendInits == { << 10, 5 >>, << SeqMod - 2, 2 >> }

\* number of sequenced packets queued so far
SentCount == WrappingSub(next_server_sequence, origin.server)

InitSend ==
    \E i \in SendInits, size \in InitBufferSizes : InitChannel(0, i[1], i[2], size)

SendDataCall ==
    \E data \in SendPayloads :
        /\ SentCount + Len(FragmentData(buffer_size, session, data).packets) <= MaxSend
        /\ SendData(data)

\* the peer's Ack and AckAll packets: for what was sent, and one below it
PeerAcks ==
    { Ack(WrappingAdd(origin.server, d - 1)) : d \in 0..MaxSend }
        \cup { AckAll(WrappingAdd(origin.server, d - 1)) : d \in 0..MaxSend }

ReceiveAck ==
    /\ receive_queue = << >>
    /\ \E p \in PeerAcks : Receive(<< p >>)

\* send_next calls whose serialisation succeeds
SendNextOk == \E count \in SmallCounts : SendNext(count, TRUE)

\* the receive queue holds at most one packet here: a count of 1 stands for every count
ProcessNextAck ==
    /\ receive_queue # << >>
    /\ \E seed \in CrcSeeds : ProcessNext(1, seed)

NextSend == SendDataCall \/ SendNextOk \/ ReceiveAck \/ ProcessNextAck

SpecSend == InitSend /\ [][NextSend]_vars

-----------------------------------------------------------------------------
(* Duplex: payloads queued for sending while the peer's Data packets arrive *)

InitDuplex == \E size \in InitBufferSizes : InitChannel(0, 0, 2, size)

SendDataDuplex ==
    /\ SentCount + Len(received) < MaxDuplexTraffic
    /\ SendData(Bytes(3))

\* the peer's first two Data packets
DuplexData == { Data(PeerSeq(d), PeerPayload(PeerSeq(d))) : d \in 0..1 }

ReceiveDataDuplex ==
    /\ SentCount + Len(received) < MaxDuplexTraffic
    /\ \E p \in DuplexData : Receive(<< p >>)

\* the peer's Ack and AckAll packets for the first two packets sent
DuplexAcks ==
    { Ack(WrappingAdd(origin.server, d)) : d \in 0..1 }
        \cup { AckAll(WrappingAdd(origin.server, d)) : d \in 0..1 }

ReceiveAckDuplex ==
    /\ receive_queue = << >>
    /\ \E p \in DuplexAcks : Receive(<< p >>)

ProcessNextDuplex ==
    /\ receive_queue # << >>
    /\ \E count \in SmallCounts, seed \in CrcSeeds : ProcessNext(count, seed)

\* send_next calls; serialize_packets may return an error once it is handed packets
SendNextDuplex ==
    \E count \in SmallCounts, ok \in BOOLEAN :
        /\ ok \/ Retained(send_queue) # << >>
        /\ SendNext(count, ok)

NextDuplex ==
    \/ SendDataDuplex
    \/ ReceiveDataDuplex
    \/ ReceiveAckDuplex
    \/ ProcessNextDuplex
    \/ SendNextDuplex

SpecDuplex == InitDuplex /\ [][NextDuplex]_vars

-----------------------------------------------------------------------------
(* Wire codec: serialize, deserialize::deserialize_packet and hash.  A packet   *)
(* on the wire is a 2-byte big-endian opcode, the body, and a CRC tail of       *)
(* session.crc_length bytes (none without a session).  No session of this       *)
(* channel allows compression (process_session_request), so the compression     *)
(* flag byte is absent.                                                         *)

BE16(n) == << (n \div 256) % 256, n % 256 >>

FromBE16(b) == b[1] * 256 + b[2]

\* the variable length prefix of a MultiPacket sub-packet
VarLen(n) == IF n < 255 THEN << n >> ELSE << 255 >> \o BE16(n)

\* a seeded checksum over the bytes, standing for the seeded CRC-32
RECURSIVE CrcFold(_, _, _)
CrcFold(h, bytes, i) ==
    IF i > Len(bytes) THEN h
    ELSE CrcFold((h * 31 + bytes[i] + 1) % 16777216, bytes, i + 1)

\* the CRC tail: the low-order crc_length bytes, big-endian
CrcTail(sess, bytes) ==
    LET n == IF sess.some THEN sess.crc_length ELSE 0
        h == CrcFold(sess.crc_seed % 16777216, bytes, 1)
    IN  [i \in 1..n |-> (h \div (256 ^ (n - i))) % 256]

OpCodeOf(op) ==
    CASE op = "SessionRequest"   -> 1
      [] op = "SessionReply"     -> 2
      [] op = "MultiPacket"      -> 3
      [] op = "Disconnect"       -> 5
      [] op = "Heartbeat"        -> 6
      [] op = "NetStatusRequest" -> 7
      [] op = "NetStatusReply"   -> 8
      [] op = "Data"             -> 9
      [] op = "DataFragment"     -> 13
      [] op = "Ack"              -> 17
      [] op = "AckAll"           -> 21
      [] op = "UnknownSender"    -> 29
      [] op = "RemapConnection"  -> 30

\* opcode and body of one packet, without the CRC tail
EncodeOne(packet) ==
    BE16(OpCodeOf(packet.op)) \o
    ( CASE packet.op = "SessionRequest" ->
              BE32(packet.protocol_version) \o BE32(packet.session_id)
                  \o BE32(packet.buffer_size)
                  \o BE32(Len(packet.app_protocol)) \o packet.app_protocol
        [] packet.op = "Disconnect" -> BE32(packet.session_id) \o BE16(packet.reason)
        [] packet.op \in {"Data", "DataFragment"} -> BE16(packet.seq) \o packet.data
        [] packet.op \in {"Ack", "AckAll"} -> BE16(packet.acked)
        [] OTHER -> << >> )

\* a MultiPacket of the given sub-packets, each already encoded
RECURSIVE EncodeSubPackets(_)
EncodeSubPackets(subs) ==
    IF subs = << >> THEN << >>
    ELSE VarLen(Len(Head(subs))) \o Head(subs) \o EncodeSubPackets(Tail(subs))

EncodeMulti(subs) == BE16(OpCodeOf("MultiPacket")) \o EncodeSubPackets(subs)

\* a datagram: the bytes followed by their CRC tail
Seal(bytes, sess) == bytes \o CrcTail(sess, bytes)

DecodeResult(ok, packet, err) == [ok |-> ok, packet |-> packet, err |-> err]

\* opcode and body of one packet decoded
DecodeOne(bytes) ==
    IF Len(bytes) < 2 THEN DecodeResult(FALSE, Heartbeat, "TruncatedPacket")
    ELSE
        LET op   == FromBE16(bytes)
            body == SubSeq(bytes, 3, Len(bytes))
            short == DecodeResult(FALSE, Heartbeat, "TruncatedPacket")
        IN  CASE op = 1 ->
                   IF Len(body) < 16 \/ Len(body) < 16 + FromBE32(SubSeq(body, 13, 16))
                   THEN short
                   ELSE DecodeResult(TRUE,
                            SessionRequest(FromBE32(SubSeq(body, 1, 4)),
                                           FromBE32(SubSeq(body, 5, 8)),
                                           FromBE32(SubSeq(body, 9, 12)),
                                           SubSeq(body, 17, 16 + FromBE32(SubSeq(body, 13, 16)))),
                            "")
              [] op = 5 ->
                   IF Len(body) < 6 THEN short
                   ELSE DecodeResult(TRUE, Disconnect(FromBE32(SubSeq(body, 1, 4)),
                                                      FromBE16(SubSeq(body, 5, 6))), "")
              [] op = 6 -> DecodeResult(TRUE, Heartbeat, "")
              [] op \in {9, 13} ->
                   IF Len(body) < 2 THEN short
                   ELSE DecodeResult(TRUE,
                            IF op = 9
                            THEN Data(FromBE16(body), SubSeq(body, 3, Len(body)))
                            ELSE DataFragment(FromBE16(body), SubSeq(body, 3, Len(body))),
                            "")
              [] op \in {17, 21} ->
                   IF Len(body) < 2 THEN short
                   ELSE DecodeResult(TRUE,
                            IF op = 17 THEN Ack(FromBE16(body)) ELSE AckAll(FromBE16(body)),
                            "")
              [] op = 2  -> DecodeResult(TRUE, [op |-> "SessionReply", fields |-> body], "")
              [] op = 7  -> DecodeResult(TRUE, [op |-> "NetStatusRequest", fields |-> body], "")
              [] op = 8  -> DecodeResult(TRUE, [op |-> "NetStatusReply", fields |-> body], "")
              [] op = 29 -> DecodeResult(TRUE, [op |-> "UnknownSender"], "")
              [] op = 30 -> DecodeResult(TRUE, [op |-> "RemapConnection", fields |-> body], "")
              [] OTHER   -> DecodeResult(FALSE, Heartbeat, "UnknownOpCode")

\* the sub-packets of a MultiPacket body from offset i on: a sub-packet that
\* fails to decode is discarded, the others are kept in order
RECURSIVE DecodeMulti(_, _, _)
DecodeMulti(body, i, acc) ==
    IF i > Len(body) THEN acc
    ELSE
        LET long  == body[i] = 255
            start == IF long THEN i + 3 ELSE i + 1
            size  == IF long
                     THEN (IF i + 2 <= Len(body) THEN body[i + 1] * 256 + body[i + 2] ELSE 0)
                     ELSE body[i]
        IN  IF (long /\ i + 2 > Len(body)) \/ start + size - 1 > Len(body)
            THEN acc
            ELSE LET r == DecodeOne(SubSeq(body, start, start + size - 1))
                 IN  DecodeMulti(body, start + size,
                                 IF r.ok THEN Append(acc, r.packet) ELSE acc)

\* deserialize_packet: Ok(packets) is ok, Err(e) is ~ok with err = e
DeserializePacket(data, sess) ==
    LET n    == IF sess.some THEN sess.crc_length ELSE 0
        head == SubSeq(data, 1, Len(data) - n)
        tail == SubSeq(data, Len(data) - n + 1, Len(data))
    IN  IF Len(data) < 2 + n
        THEN [ok |-> FALSE, packets |-> << >>, err |-> "TruncatedPacket"]
        ELSE IF tail # CrcTail(sess, head)
        THEN [ok |-> FALSE, packets |-> << >>, err |-> "CrcError"]
        ELSE IF FromBE16(head) = 3
        THEN [ok |-> TRUE, packets |-> DecodeMulti(head, 3, << >>), err |-> ""]
        ELSE LET r == DecodeOne(head)
             IN  IF r.ok THEN [ok |-> TRUE, packets |-> << r.packet >>, err |-> ""]
                 ELSE [ok |-> FALSE, packets |-> << >>, err |-> r.err]

\* receive pushing the datagram's packets to the front of the queue
EnqueuedAtFront(queue, r) == IF r.ok THEN r.packets \o queue ELSE queue

\* receive dropping what is queued when the datagram fails to decode
EnqueuedOrCleared(queue, r) == IF r.ok THEN queue \o r.packets ELSE << >>

\* Channel::receive: receive_queue after the call, r being what deserialize_packet returned
Enqueued(queue, r) == IF r.ok THEN queue \o r.packets ELSE queue

\* Channel::receive of a datagram: last.count is the Ok value, last.out the Err value
ReceiveDatagram(data) ==
    LET r == DeserializePacket(data, session)
    IN  /\ receive_queue' = Enqueued(receive_queue, r)
        /\ received' = received \o SelectSeq(r.packets, IsSequenced)
        /\ last' = CallRecord("receive", Len(r.packets), data,
                              IF r.ok THEN << >> ELSE << r.err >>,
                              << >>, FALSE, << >>, r.ok)
        /\ UNCHANGED << session, buffer_size, recency_limit, fragment_state, send_queue,
                        reordered_packets, next_client_sequence, next_server_sequence,
                        last_client_ack, last_server_ack, delivered, origin, submitted,
                        errors, disconnected, channel_manager, threads, zones, requests >>

-----------------------------------------------------------------------------
(* Wire: datagrams, well-formed and malformed, arriving before and after the   *)
(* handshake                                                                   *)

\* the peer's packets, each sent as a datagram of its own
WirePackets ==
    { SessionRequest(3, 1, 512, << 76 >>), Heartbeat, Disconnect(1, 6), Ack(0),
      Data(PeerSeq(0), PeerPayload(PeerSeq(0))), Data(PeerSeq(1), PeerPayload(PeerSeq(1))) }

\* sub-packets that fail to decode: an unknown opcode, half an opcode, and a
\* Data packet cut inside its sequence number
MalformedSubPackets == { BE16(4), << 9 >>, BE16(OpCodeOf("Data")) \o << 0 >> }

\* the sub-packets of the peer's MultiPackets: its first two Data packets and a Heartbeat
WireSubPackets ==
    << EncodeOne(Data(PeerSeq(0), PeerPayload(PeerSeq(0)))),
       EncodeOne(Heartbeat),
       EncodeOne(Data(PeerSeq(1), PeerPayload(PeerSeq(1)))) >>

\* WireSubPackets with the malformed sub-packet bad put before position k
WithMalformed(bad, k) ==
    SubSeq(WireSubPackets, 1, k - 1) \o << bad >> \o SubSeq(WireSubPackets, k, 3)

\* datagrams that fail to decode: too short for an opcode and the CRC tail, an
\* unknown opcode, a body cut short, and a CRC tail that does not match
MalformedDatagrams ==
    { << 0 >>,
      Seal(BE16(4), session),
      Seal(BE16(OpCodeOf("Ack")) \o << 0 >>, session) }
    \cup ( IF session.some
           THEN { EncodeOne(Data(PeerSeq(0), PeerPayload(PeerSeq(0))))
                      \o [i \in 1..session.crc_length |-> 0],
                  EncodeOne(Heartbeat) }
           ELSE {} )

InitWire == \E c \in StartSeqs : InitChannel(c, 0, 2, ReplyBufferSize)

\* what the channel holds and has answered so far
WireTraffic == Len(receive_queue) + Len(send_queue) + Len(received)

ReceiveWellFormed ==
    /\ WireTraffic < MaxWireTraffic
    /\ \E p \in WirePackets : ReceiveDatagram(Seal(EncodeOne(p), session))

ReceiveMalformed ==
    \E data \in MalformedDatagrams : ReceiveDatagram(data)

ReceiveMultiPacket ==
    /\ WireTraffic < MaxWireTraffic
    /\ \/ ReceiveDatagram(Seal(EncodeMulti(WireSubPackets), session))
       \/ \E bad \in MalformedSubPackets, k \in 1..4 :
             ReceiveDatagram(Seal(EncodeMulti(WithMalformed(bad, k)), session))

ProcessNextWire ==
    /\ receive_queue # << >>
    /\ \E count \in SmallCounts, seed \in CrcSeeds : ProcessNext(count, seed)

NextWire == ReceiveWellFormed \/ ReceiveMalformed \/ ReceiveMultiPacket \/ ProcessNextWire

SpecWire == InitWire /\ [][NextWire]_vars

-----------------------------------------------------------------------------
(* Echo: the peer returns the sequenced packets the channel sends, in order   *)

\* payloads of one packet, of two fragments and of three fragments
EchoPayloads == { Bytes(3), Bytes(8), Bytes(14) }

InitEcho ==
    \E c \in StartSeqs, size \in InitBufferSizes : InitChannel(c, c, 2, size)

SendDataEcho ==
    \E data \in EchoPayloads :
        /\ SentCount + Len(FragmentData(buffer_size, session, data).packets) <= MaxEchoSend
        /\ SendData(data)

IsSequencedEntry(pending) == IsSequenced(pending.packet)

\* the sequenced packets queued so far, in sequence order
SentPackets ==
    LET entries == SelectSeq(send_queue, IsSequencedEntry)
    IN  [i \in 1..Len(entries) |-> entries[i].packet]

\* the peer returns the next packet it was sent
ReceiveEcho ==
    /\ Len(received) < Len(SentPackets)
    /\ Receive(<< SentPackets[Len(received) + 1] >>)

ProcessNextEcho ==
    /\ receive_queue # << >>
    /\ \E count \in SmallCounts, seed \in CrcSeeds : ProcessNext(count, seed)

NextEcho == SendDataEcho \/ ReceiveEcho \/ ProcessNextEcho

SpecEcho == InitEcho /\ [][NextEcho]_vars

-----------------------------------------------------------------------------
(* Forge: the peer sends Data packets and fragments that do not fit together  *)

InitForge == \E c \in StartSeqs : InitChannel(c, 0, 2, ReplyBufferSize)

\* packets the peer makes up under sequence number n: a Data packet, the first
\* fragment of a four-byte payload, and fragments of two and of three more bytes
Forged(n) ==
    { Data(n, << 65 >>),
      DataFragment(n, BE32(4) \o << 1, 2 >>),
      DataFragment(n, << 3, 4 >>),
      DataFragment(n, << 3, 4, 5 >>) }

ReceiveForged ==
    /\ Len(received) < MaxForged
    /\ \E p \in Forged(PeerSeq(Len(received))) : Receive(<< p >>)

ProcessNextForge ==
    /\ receive_queue # << >>
    /\ \E count \in SmallCounts, seed \in CrcSeeds : ProcessNext(count, seed)

NextForge == ReceiveForged \/ ProcessNextForge

SpecForge == InitForge /\ [][NextForge]_vars

-----------------------------------------------------------------------------
(* Bundle: the peer's Data payloads are bundles of application messages, or    *)
(* single messages                                                             *)

\* the bundled form: the sentinel 0x00 0x19, then each message behind its length
RECURSIVE BundleBody(_)
BundleBody(msgs) ==
    IF msgs = << >> THEN << >>
    ELSE VarLen(Len(Head(msgs))) \o Head(msgs) \o BundleBody(Tail(msgs))

Bundle(msgs) == << 0, 25 >> \o BundleBody(msgs)

\* lists of messages: none, one, several with an empty one among them, and
\* messages on both sides of the 0xFF length boundary
BundleLists ==
    { << >>,
      << << 1 >> >>,
      << << 1, 2 >>, << >>, << 0, 25 >> >>,
      << Bytes(254), << 7 >> >>,
      << Bytes(255) >> }

\* payloads without the sentinel: empty, one byte, and near misses of the sentinel
SinglePayloads == { << >>, << 0 >>, << 65 >>, << 0, 24, 1 >>, << 25, 0 >> }

InitBundle == \E c \in StartSeqs : InitChannel(c, 0, 2, ReplyBufferSize)

ReceiveBundle ==
    /\ Len(received) < MaxBundled
    /\ \E msgs \in BundleLists : Receive(<< Data(PeerSeq(Len(received)), Bundle(msgs)) >>)

ReceiveSingle ==
    /\ Len(received) < MaxBundled
    /\ \E data \in SinglePayloads : Receive(<< Data(PeerSeq(Len(received)), data) >>)

ProcessNextBundle ==
    /\ receive_queue # << >>
    /\ \E count \in SmallCounts, seed \in CrcSeeds : ProcessNext(count, seed)

NextBundle == ReceiveBundle \/ ReceiveSingle \/ ProcessNextBundle

SpecBundle == InitBundle /\ [][NextBundle]_vars

-----------------------------------------------------------------------------
(* Manager: the host's threads look channels up, call their methods, insert   *)
(* and remove them under the lock discipline of the demultiplexer             *)

InitManager == InitChannel(0, 0, 2, ReplyBufferSize)

ChannelFrame ==
    UNCHANGED << channel, last, delivered, received, origin, submitted, errors,
                 disconnected, zones, requests >>

\* a look-up starts: the thread takes the map's read guard for address a
AcquireRead(t, a) ==
    /\ threads[t].pc = "idle"
    /\ CanRead(channel_manager)
    /\ channel_manager' = [channel_manager EXCEPT !.readers = @ \cup {t}]
    /\ threads' = [threads EXCEPT ![t] = [pc |-> "reading", addr |-> a]]
    /\ ChannelFrame

\* the look-up found the channel: the thread takes its mutex
LockChannel(t) ==
    /\ threads[t].pc = "reading"
    /\ threads[t].addr \in channel_manager.keys
    /\ CanLock(channel_manager, threads[t].addr)
    /\ channel_manager' = [channel_manager EXCEPT !.owner[threads[t].addr] = {t}]
    /\ threads' = [threads EXCEPT ![t].pc = "locked"]
    /\ ChannelFrame

\* the thread calls a method of the channel through the MutexGuard
EnterMethod(t) ==
    /\ threads[t].pc = "locked"
    /\ threads' = [threads EXCEPT ![t].pc = "executing"]
    /\ UNCHANGED channel_manager
    /\ ChannelFrame

\* the method returns
LeaveMethod(t) ==
    /\ threads[t].pc = "executing"
    /\ threads' = [threads EXCEPT ![t].pc = "locked"]
    /\ UNCHANGED channel_manager
    /\ ChannelFrame

\* the MutexGuard is dropped
UnlockChannel(t) ==
    /\ threads[t].pc = "locked"
    /\ channel_manager' = [channel_manager EXCEPT !.owner[threads[t].addr] = {}]
    /\ threads' = [threads EXCEPT ![t].pc = "reading"]
    /\ ChannelFrame

\* the read guard is dropped
ReleaseRead(t) ==
    /\ threads[t].pc = "reading"
    /\ channel_manager' = [channel_manager EXCEPT !.readers = @ \ {t}]
    /\ threads' = [threads EXCEPT ![t] = Idle]
    /\ ChannelFrame

\* an insertion or removal starts: the thread takes the map's write guard
AcquireWrite(t, a) ==
    /\ threads[t].pc = "idle"
    /\ CanWrite(channel_manager)
    /\ channel_manager' = [channel_manager EXCEPT !.writer = {t}]
    /\ threads' = [threads EXCEPT ![t] = [pc |-> "writing", addr |-> a]]
    /\ ChannelFrame

\* HashMap::insert of a new channel under the write guard
InsertChannel(t) ==
    /\ threads[t].pc = "writing"
    /\ threads[t].addr \notin channel_manager.keys
    /\ channel_manager' = [channel_manager EXCEPT !.keys = @ \cup {threads[t].addr},
                                                  !.owner[threads[t].addr] = {}]
    /\ threads' = [threads EXCEPT ![t].pc = "written"]
    /\ ChannelFrame

\* HashMap::remove of a channel under the write guard: its mutex goes with it
RemoveChannel(t) ==
    /\ threads[t].pc = "writing"
    /\ threads[t].addr \in channel_manager.keys
    /\ channel_manager' = [channel_manager EXCEPT !.keys = @ \ {threads[t].addr},
                                                  !.owner[threads[t].addr] = {}]
    /\ threads' = [threads EXCEPT ![t].pc = "written"]
    /\ ChannelFrame

\* the write guard is dropped
ReleaseWrite(t) ==
    /\ threads[t].pc \in {"writing", "written"}
    /\ channel_manager' = [channel_manager EXCEPT !.writer = {}]
    /\ threads' = [threads EXCEPT ![t] = Idle]
    /\ ChannelFrame

NextManager ==
    \E t \in Threads :
        \/ \E a \in Addresses : AcquireRead(t, a)
        \/ LockChannel(t)
        \/ EnterMethod(t)
        \/ LeaveMethod(t)
        \/ UnlockChannel(t)
        \/ ReleaseRead(t)
        \/ \E a \in Addresses : AcquireWrite(t, a)
        \/ InsertChannel(t)
        \/ RemoveChannel(t)
        \/ ReleaseWrite(t)

SpecManager == InitManager /\ [][NextManager]_vars

-----------------------------------------------------------------------------
(* Retransmission with a changed payload: the peer sends a sequence number *)
(* twice, the second time with other data                                  *)

\* the payload of the second transmission of sequence number s
RivalPayload(s) == << 97 + (s % 16) >>

RivalData ==
    { Data(PeerSeq(d), PeerPayload(PeerSeq(d))) : d \in 0..MaxRivalSeq }
        \cup { Data(PeerSeq(d), RivalPayload(PeerSeq(d))) : d \in 0..MaxRivalSeq }

InitRival ==
    \E c \in StartSeqs : InitChannel(c, 0, 2, ReplyBufferSize)

ReceiveRival ==
    /\ Len(received) < MaxRivalReceive
    /\ \E p \in RivalData : Receive(<< p >>)

ProcessNextRival ==
    /\ receive_queue # << >>
    /\ \E count \in SmallCounts, seed \in CrcSeeds : ProcessNext(count, seed)

NextRival == ReceiveRival \/ ProcessNextRival

SpecRival == InitRival /\ [][NextRival]_vars

-----------------------------------------------------------------------------
(* One packet per call: the host calls process_next(1) only, and the peer    *)
(* sends, in any order and any number of times, Data packets that are the    *)
(* expected one, lie in the recency window (n, n + W] of section 4.5 when    *)
(* they arrive, or repeat a packet already accepted                          *)

\* s is the expected number, lies in the window ahead of it, or was accepted before
InWindowOnArrival(s) ==
    \/ WrappingSub(s, next_client_sequence) <= recency_limit
    \/ /\ WrappingSub(next_client_sequence, s) >= 1
       /\ WrappingSub(next_client_sequence, s)
              <= WrappingSub(next_client_sequence, origin.client)

InitSingle ==
    \E c \in StartSeqs, w \in RecencyLimits : InitChannel(c, 0, w, ReplyBufferSize)

ReceiveSingleData ==
    /\ Len(received) < MaxSingleReceive
    /\ \E p \in PeerData :
          /\ InWindowOnArrival(p.seq)
          /\ Receive(<< p >>)

ProcessNextSingle ==
    /\ receive_queue # << >>
    /\ \E seed \in CrcSeeds : ProcessNext(1, seed)

NextSingle == ReceiveSingleData \/ ProcessNextSingle

SpecSingle == InitSingle /\ [][NextSingle]_vars

-----------------------------------------------------------------------------
(* Send loop: the host calls send_next with one fixed count again and again, *)
(* the peer answers every sequenced packet it is handed with an Ack, and the *)
(* host processes each Ack with process_next(1) before it does anything else *)

InitLive ==
    \E i \in SendInits, size \in InitBufferSizes : InitChannel(0, i[1], i[2], size)

\* the last call was a send_next that handed sequenced packets to the peer
ReplyPending ==
    /\ last.call = "send_next"
    /\ SelectSeq(last.handed, IsSequenced) # << >>

\* the peer's answer: one Ack for each sequenced packet it was handed
PeerAnswer ==
    LET handed == SelectSeq(last.handed, IsSequenced)
    IN  [i \in 1..Len(handed) |-> Ack(handed[i].seq)]

SendDataLive ==
    /\ receive_queue = << >>
    /\ ~ReplyPending
    /\ \E data \in SendPayloads :
          /\ SentCount + Len(FragmentData(buffer_size, session, data).packets) <= MaxLiveSend
          /\ SendData(data)

SendNextLive ==
    /\ receive_queue = << >>
    /\ ~ReplyPending
    /\ SendNext(MaxLiveCount, TRUE)

ReceivePeerAnswer ==
    /\ ReplyPending
    /\ Receive(PeerAnswer)

ProcessNextLive ==
    /\ receive_queue # << >>
    /\ \E seed \in CrcSeeds : ProcessNext(1, seed)

NextLive == SendDataLive \/ SendNextLive \/ ReceivePeerAnswer \/ ProcessNextLive

\* the host keeps calling send_next and process_next, the peer keeps answering
SpecLive ==
    /\ InitLive
    /\ [][NextLive]_vars
    /\ WF_vars(SendNextLive)
    /\ WF_vars(ReceivePeerAnswer)
    /\ WF_vars(ProcessNextLive)

-----------------------------------------------------------------------------
(* Lap: a long-lived channel whose counter next_server_sequence is about to  *)
(* come round.  Data(0) was queued first and has never been acknowledged;    *)
(* the 0xFFFD packets queued after it, 1..0xFFFD, were all acknowledged and  *)
(* removed by send_next, so that next_server_sequence stands at 0xFFFE.      *)

InitLap ==
    /\ session = NoSession
    /\ buffer_size = ReplyBufferSize
    /\ recency_limit = 2
    /\ fragment_state = NoFragment
    /\ send_queue = << PendingPacket(Data(0, Bytes(3))) >>
    /\ receive_queue = << >>
    /\ reordered_packets = << >>
    /\ next_client_sequence = 0
    /\ next_server_sequence = SeqMod - 2
    /\ last_client_ack = 0
    /\ last_server_ack = 0
    /\ last = NoCall
    /\ delivered = << >>
    /\ received = << >>
    /\ origin = [client |-> 0, server |-> SeqMod - 2]
    /\ submitted = << >>
    /\ errors = {}
    /\ disconnected = FALSE
    /\ channel_manager = NewManager
    /\ threads = [t \in Threads |-> Idle]
    /\ zones = NewZones
    /\ requests = NoRequests

SendDataLap ==
    /\ SentCount < MaxLapSend
    /\ SendData(Bytes(3))

SendNextLap == \E count \in SmallCounts : SendNext(count, TRUE)

\* the peer's Acks for the packets of this lap, the old Data(0) among them
LapAcks == { Ack(WrappingAdd(origin.server, d)) : d \in 0..(MaxLapSend - 1) }

ReceiveAckLap ==
    /\ receive_queue = << >>
    /\ \E p \in LapAcks : Receive(<< p >>)

ProcessNextLap ==
    /\ receive_queue # << >>
    /\ \E seed \in CrcSeeds : ProcessNext(1, seed)

NextLap == SendDataLap \/ SendNextLap \/ ReceiveAckLap \/ ProcessNextLap

SpecLap == InitLap /\ [][NextLap]_vars

-----------------------------------------------------------------------------
(* Flood: the peer sends Data packets with sequence numbers all around the *)
(* window: behind the start, at it, inside the window, just beyond it and  *)
(* half the number space away                                              *)

FloodOffsets == {SeqMod - 1, 0, 1, 2, 3, SeqMod \div 2}

FloodData == { Data(PeerSeq(d), PeerPayload(PeerSeq(d))) : d \in FloodOffsets }

InitFlood ==
    \E c \in StartSeqs, w \in RecencyLimits : InitChannel(c, 0, w, ReplyBufferSize)

ReceiveFlood ==
    /\ Len(received) < MaxFloodReceive
    /\ \E p \in FloodData : Receive(<< p >>)

ProcessNextFlood ==
    /\ receive_queue # << >>
    /\ \E count \in SmallCounts, seed \in CrcSeeds : ProcessNext(count, seed)

NextFlood == ReceiveFlood \/ ProcessNextFlood

SpecFlood == InitFlood /\ [][NextFlood]_vars

-----------------------------------------------------------------------------
(* Game: players walk through doors, mount and dismount, their packets being *)
(* handled side by side                                                      *)

InitGame == InitChannel(0, 0, 2, ReplyBufferSize)

\* the Requests a handler may be working on
Running == BagToSet(requests)

GameFrame ==
    UNCHANGED << channel, delivered, received, origin, submitted, errors,
                 disconnected, channel_manager, threads >>

Interact ==
    /\ \E p \in Players, d \in DoorDestinations : InteractWithCharacter(p, d)
    /\ GameFrame

TeleportRemoves ==
    /\ \E r \in Running : TeleportRemove(r)
    /\ GameFrame

TeleportInserts ==
    /\ \E r \in Running : TeleportInsert(r)
    /\ GameFrame

MountSpawns ==
    /\ \E p \in Players, m \in RequestedMountIds : ProcessMountSpawn(p, m)
    /\ GameFrame

MountSpawnApplies ==
    /\ \E r \in Running : MountSpawnApply(r)
    /\ GameFrame

Dismounts ==
    /\ \E p \in Players : ProcessDismount(p)
    /\ GameFrame

DismountApplies ==
    /\ \E r \in Running : DismountApply(r)
    /\ GameFrame

NextGame ==
    \/ Interact
    \/ TeleportRemoves
    \/ TeleportInserts
    \/ MountSpawns
    \/ MountSpawnApplies
    \/ Dismounts
    \/ DismountApplies

SpecGame == InitGame /\ [][NextGame]_vars

-----------------------------------------------------------------------------
(* Shared vocabulary of the properties *)

\* nothing is left to process
Quiescent == receive_queue = << >> /\ DOMAIN reordered_packets = {}

\* number of inbound sequenced packets accepted in order so far
AcceptedCount == WrappingSub(next_client_sequence, origin.client)

\* sequence numbers that have arrived, and those that have arrived at least twice
Arrived ==
    { received[i].seq : i \in { j \in 1..Len(received) : SequenceNumber(received[j]) # << >> } }

ArrivedTwice ==
    { s \in Arrived :
        Cardinality({ i \in 1..Len(received) : SequenceNumber(received[i]) = << s >> }) >= 2 }

Occurrences(seq, x) == Cardinality({ i \in 1..Len(seq) : seq[i] = x })

\* a is at or after s in wrap order
Covers(a, s) == WrappingSub(a, s) < SeqMod \div 2

-----------------------------------------------------------------------------
(* C1: once the peer's Data packets origin..origin+k have all arrived and      *)
(* been accepted and nothing is left to process, the concatenation of the      *)
(* process_next return values is exactly their payloads in sequence order,     *)
(* each exactly once.                                                          *)
C1_DeliveredInOrderExactlyOnce ==
    ( /\ Quiescent
      /\ AcceptedCount >= 1
      /\ Arrived = { PeerSeq(d) : d \in 0..(AcceptedCount - 1) } )
    => delivered = [i \in 1..AcceptedCount |-> PeerPayload(PeerSeq(i - 1))]

(* C2: a sequenced packet that arrived twice and was accepted has its payload  *)
(* delivered exactly once and is covered by an Ack or AckAll that was queued.  *)
C2_DuplicateDeliveredOnce ==
    Quiescent =>
        \A s \in ArrivedTwice :
            Covers(WrappingSub(next_client_sequence, 1), s) =>
                /\ Occurrences(delivered, PeerPayload(s)) = 1
                /\ \E i \in 1..Len(send_queue) :
                      \/ send_queue[i].packet = Ack(s)
                      \/ /\ send_queue[i].packet.op = "AckAll"
                         /\ Covers(send_queue[i].packet.acked, s)

\* receive_queue holds seqs n+1..n+j (any order) ahead of the expected seq n
OutOfOrderBatch ==
    LET k == Len(receive_queue)
        n == next_client_sequence
    IN  /\ k >= 2
        /\ k - 1 <= recency_limit
        /\ DOMAIN reordered_packets = {}
        /\ ~fragment_state.active
        /\ \A i \in 1..k : receive_queue[i].op = "Data"
        /\ receive_queue[k].seq = n
        /\ { receive_queue[i].seq : i \in 1..(k - 1) } = { WrappingAdd(n, d) : d \in 1..(k - 1) }

(* C3: a single process_next(k) on k packets that arrived out of order          *)
(* (n+1..n+j ahead of the expected n) returns all k payloads in sequence order,  *)
(* leaves next_client_sequence = n+j+1 and queues one Ack per out-of-order       *)
(* arrival followed by exactly one AckAll(n+j).                                  *)
C3_ReorderedBatchInOneCall ==
    [][ ( /\ OutOfOrderBatch
          /\ last'.call = "process_next"
          /\ last'.count = Len(receive_queue)
          /\ receive_queue' # receive_queue )
        => LET k == Len(receive_queue)
               n == next_client_sequence
           IN  /\ last'.out = [i \in 1..k |-> PeerPayload(WrappingAdd(n, i - 1))]
               /\ next_client_sequence' = WrappingAdd(n, k)
               /\ send_queue' = send_queue
                     \o [i \in 1..(k - 1) |-> PendingPacket(Ack(receive_queue[i].seq))]
                     \o << PendingPacket(AckAll(WrappingAdd(n, k - 1))) >>
      ]_vars

-----------------------------------------------------------------------------
(* C4: save_for_reorder(s) returns true exactly when s lies in the window      *)
(* (n, n+W] under wrap arithmetic: 1 <= (s - n) mod 2^16 <= W.                 *)
C4_RecentExactlyInWindow ==
    last.call = "save_for_reorder" =>
        ( last.ok <=> ( /\ 1 <= WrappingSub(last.count, next_client_sequence)
                        /\ WrappingSub(last.count, next_client_sequence) <= recency_limit ) )

-----------------------------------------------------------------------------
SessionReplies(queue) ==
    Cardinality({ i \in 1..Len(queue) : queue[i].packet.op = "SessionReply" })

(* C5: processing a SessionRequest on a channel without a session stores a     *)
(* session with the request's session_id, crc_length 3, no compression and no  *)
(* encryption, and appends exactly one SessionReply with the same session_id,  *)
(* crc_seed and crc_length, compression and encryption off, buffer size 512    *)
(* and protocol version 3.                                                     *)
C5_SessionRequestOpensSession ==
    [][ ( /\ last'.call = "process_next"
          /\ last'.processed # << >>
          /\ last'.processed[1].op = "SessionRequest"
          /\ ~session.some )
        => LET req == last'.processed[1]
               n   == Len(send_queue')
           IN  /\ session'.some
               /\ session'.session_id = req.session_id
               /\ session'.crc_length = 3
               /\ ~session'.allow_compression
               /\ ~session'.use_encryption
               /\ n >= 1
               /\ send_queue'[n] =
                     [needs_send |-> TRUE,
                      packet |-> SessionReply(req.session_id, session'.crc_seed,
                                              session'.crc_length, FALSE, FALSE, 512, 3)]
               /\ SessionReplies(send_queue') = SessionReplies(send_queue) + 1
      ]_vars

\* the first SessionRequest has been processed: the scenario S1
C5_Witness ==
    /\ last.call = "process_next"
    /\ last.processed # << >>
    /\ last.processed[1].op = "SessionRequest"
    /\ last.processed[1].session_id = 48879
    /\ session.some
    /\ session.session_id = 48879
    /\ SessionReplies(send_queue) = 1

-----------------------------------------------------------------------------
\* the sequenced entries of the queue carry increasing sequence numbers (wrap order)
SubmissionOrder(queue) ==
    \A i, j \in 1..Len(queue) :
        (i < j /\ IsSequenced(queue[i].packet) /\ IsSequenced(queue[j].packet))
            => ( /\ WrappingSub(queue[j].packet.seq, queue[i].packet.seq) >= 1
                 /\ WrappingSub(queue[j].packet.seq, queue[i].packet.seq) < SeqMod \div 2 )

(* C6: a send_data call that produces k packets at next_server_sequence = N    *)
(* appends exactly k entries to the back of send_queue, in chunk order, with   *)
(* sequence numbers N, N+1, ..., N+k-1 modulo 2^16 and needs_send = true, and  *)
(* leaves next_server_sequence = N+k mod 2^16; the sequenced entries of        *)
(* send_queue stay in submission order.                                        *)
C6_SendDataAssignsConsecutiveSequences ==
    [][ /\ SubmissionOrder(send_queue')
        /\ last'.call = "send_data" =>
             LET old    == Len(send_queue)
                 k      == Len(send_queue') - old
                 N      == next_server_sequence
                 chunks == FragmentData(buffer_size, session, last'.arg).packets
             IN  /\ k >= 1
                 /\ k = Len(chunks)
                 /\ SubSeq(send_queue', 1, old) = send_queue
                 /\ \A i \in 1..k :
                       /\ send_queue'[old + i].needs_send
                       /\ IsSequenced(send_queue'[old + i].packet)
                       /\ send_queue'[old + i].packet.seq = (N + i - 1) % 65536
                       /\ send_queue'[old + i].packet.data = chunks[i].data
                 /\ next_server_sequence' = (N + k) % 65536
      ]_vars

\* one send_data call has queued three fragments under 0xFFFE, 0xFFFF, 0x0000
C6_Witness ==
    /\ last.call = "send_data"
    /\ last.count = 3
    /\ Len(send_queue) = 3
    /\ [i \in 1..3 |-> send_queue[i].packet.seq] = << 65534, 65535, 0 >>
    /\ next_server_sequence = 1

-----------------------------------------------------------------------------
(* C7: when a process_next call accepted an in-order sequenced packet, the     *)
(* AckAll it queued is among the packets the very next send_next call hands    *)
(* to the wire codec.                                                          *)
C7_AckAllInNextSendNext ==
    [][ ( /\ last.call = "process_next"
          /\ last.acked
          /\ last'.call = "send_next" )
        => \E i \in 1..Len(last'.handed) : last'.handed[i] = AckAll(last_server_ack)
      ]_vars

-----------------------------------------------------------------------------
IsUnacked(pending) == pending.needs_send /\ IsSequenced(pending.packet)

\* the peer's ack, as the channel accepts it (section 4.5), covers sequence number p
AckCovers(ack, p) ==
    \/ /\ ack.op = "Ack"
       /\ ack.acked = p
    \/ /\ ack.op = "AckAll"
       /\ ShouldClientAck(recency_limit, next_server_sequence, ack.acked, p)

-----------------------------------------------------------------------------
(* C9: a packet without a sequence number is marked as sent (needs_send =      *)
(* false) only by a send_next call whose output includes it, so it is never    *)
(* discarded unsent, also when send_next returns a serialisation error.        *)
C9_UnsequencedSentExactlyOnce ==
    last.call = "send_next" =>
        \A i \in 1..Len(send_queue) :
            (~IsSequenced(send_queue[i].packet) /\ ~send_queue[i].needs_send)
                => ( /\ last.ok
                     /\ i <= Len(last.handed)
                     /\ last.handed[i] = send_queue[i].packet )

-----------------------------------------------------------------------------
\* the scenario S5: sequences 10..14 queued and unacked, the window covering them
FiveQueued ==
    /\ Len(send_queue) = 5
    /\ [i \in 1..5 |-> send_queue[i].packet.seq] = << 10, 11, 12, 13, 14 >>
    /\ \A i \in 1..5 : send_queue[i].needs_send
    /\ next_server_sequence = 15
    /\ recency_limit >= 5

(* C10: processing AckAll(s) sets needs_send = false for exactly the entries   *)
(* whose sequence number p satisfies should_client_ack(recency_limit,          *)
(* next_server_sequence, s, p) and changes no other entry; with 10..14 queued  *)
(* and the window covering them, AckAll(12) retires 10, 11, 12 and leaves 13   *)
(* and 14 with needs_send = true.                                              *)
C10_AckAllRetiresAccepted ==
    [][ ( /\ last'.call = "process_next"
          /\ last'.processed # << >>
          /\ last'.processed[1].op = "AckAll" )
        => LET s == last'.processed[1].acked
           IN  /\ Len(send_queue') >= Len(send_queue)
               /\ \A i \in 1..Len(send_queue) :
                     /\ send_queue'[i].packet = send_queue[i].packet
                     /\ send_queue'[i].needs_send =
                           ( /\ send_queue[i].needs_send
                             /\ ~( /\ IsSequenced(send_queue[i].packet)
                                   /\ ShouldClientAck(recency_limit, next_server_sequence,
                                                      s, send_queue[i].packet.seq) ) )
               /\ (FiveQueued /\ s = 12) =>
                     [i \in 1..5 |-> send_queue'[i].needs_send]
                        = << FALSE, FALSE, FALSE, TRUE, TRUE >>
      ]_vars

\* AckAll(12) has been processed with 10..14 queued: 13 and 14 remain
C10_Witness ==
    /\ last.call = "process_next"
    /\ last.processed = << AckAll(12) >>
    /\ Len(send_queue) = 5
    /\ [i \in 1..5 |-> send_queue[i].packet.seq] = << 10, 11, 12, 13, 14 >>
    /\ [i \in 1..5 |-> send_queue[i].needs_send] = << FALSE, FALSE, FALSE, TRUE, TRUE >>

-----------------------------------------------------------------------------
\* the acceptance predicate of section 4.5 for a single Ack(s): U = N - 1 and
\* min = N - W, both modulo 2^16
AckAccepted(s) ==
    LET U   == (next_server_sequence + 65535) % 65536
        min == (next_server_sequence - recency_limit + 65536) % 65536
    IN  IF min < U THEN min <= s /\ s <= U ELSE min <= s \/ s <= U

(* C11: processing Ack(s) sets needs_send = false for the entries whose        *)
(* sequence number equals s if and only if s satisfies the acceptance          *)
(* predicate with U = next_server_sequence - 1 and min = next_server_sequence  *)
(* - recency_limit; every other entry, and every entry when the predicate      *)
(* fails, is left unchanged.                                                   *)
C11_AckRetiresMatchingEntry ==
    [][ ( /\ last'.call = "process_next"
          /\ last'.processed # << >>
          /\ last'.processed[1].op = "Ack" )
        => LET s == last'.processed[1].acked
           IN  /\ Len(send_queue') >= Len(send_queue)
               /\ \A i \in 1..Len(send_queue) :
                     /\ send_queue'[i].packet = send_queue[i].packet
                     /\ send_queue'[i].needs_send =
                           ( /\ send_queue[i].needs_send
                             /\ ~( /\ AckAccepted(s)
                                   /\ send_queue[i].packet.op \in {"Data", "DataFragment"}
                                   /\ send_queue[i].packet.seq = s ) )
      ]_vars

\* an Ack for a queued packet that has left the window was processed and the
\* packet still needs sending, while an Ack inside the window retired another
C11_Witness ==
    /\ last.call = "process_next"
    /\ last.processed # << >>
    /\ last.processed[1].op = "Ack"
    /\ ~AckAccepted(last.processed[1].acked)
    /\ \E i, j \in 1..Len(send_queue) :
          /\ IsSequenced(send_queue[i].packet)
          /\ send_queue[i].packet.seq = last.processed[1].acked
          /\ send_queue[i].needs_send
          /\ IsSequenced(send_queue[j].packet)
          /\ ~send_queue[j].needs_send

-----------------------------------------------------------------------------
(* C12: when receive fails to decode the datagram it returns the decode error  *)
(* and leaves every field of the channel as it was: receive_queue, send_queue, *)
(* reordered_packets, fragment_state, session, buffer_size and the four        *)
(* sequence counters.                                                          *)
C12_FailedReceiveChangesNothing ==
    [][ ( /\ last'.call = "receive"
          /\ ~last'.ok )
        => /\ last'.out \in { << e >> : e \in {"TruncatedPacket", "UnknownOpCode",
                                              "CrcError", "DecompressionError"} }
           /\ receive_queue' = receive_queue
           /\ send_queue' = send_queue
           /\ reordered_packets' = reordered_packets
           /\ fragment_state' = fragment_state
           /\ session' = session
           /\ buffer_size' = buffer_size
           /\ next_client_sequence' = next_client_sequence
           /\ next_server_sequence' = next_server_sequence
           /\ last_client_ack' = last_client_ack
           /\ last_server_ack' = last_server_ack
      ]_vars

\* a datagram with a wrong CRC tail was refused by a channel that has a session,
\* packets waiting in receive_queue and replies waiting in send_queue
C12_Witness ==
    /\ last.call = "receive"
    /\ ~last.ok
    /\ last.out = << "CrcError" >>
    /\ session.some
    /\ receive_queue # << >>
    /\ send_queue # << >>

-----------------------------------------------------------------------------
\* the datagram is the peer's MultiPacket with one malformed sub-packet in it
MultiPacketWithMalformed(data) ==
    \E bad \in MalformedSubPackets, k \in 1..4 :
        data = Seal(EncodeMulti(WithMalformed(bad, k)), session)

-----------------------------------------------------------------------------
\* the errors that are fatal to the channel
FatalErrors == {"FragmentOverflow", "FragmentInterleaved"}

(* C14: a FragmentOverflow or FragmentInterleaved raised while process_next    *)
(* handles a packet is surfaced to the caller, the call reporting that it      *)
(* failed, and is fatal: the channel delivers no further payload after it.     *)
C14_FragmentErrorsAreFatal ==
    [][ /\ ( /\ last'.call = "process_next"
             /\ (errors' \ errors) \cap FatalErrors # {} )
           => ~last'.ok
        /\ (errors \cap FatalErrors # {}) => delivered' = delivered
      ]_vars

-----------------------------------------------------------------------------
-----------------------------------------------------------------------------
(* C16: processing a SessionRequest whose protocol_version is not 3 queues a   *)
(* Disconnect with reason ProtocolMismatch (16), leaves session as it was and  *)
(* queues no SessionReply.                                                     *)
C16_VersionMismatchDisconnects ==
    [][ ( /\ last'.call = "process_next"
          /\ last'.processed # << >>
          /\ last'.processed[1].op = "SessionRequest"
          /\ last'.processed[1].protocol_version # 3 )
        => /\ session' = session
           /\ SessionReplies(send_queue') = SessionReplies(send_queue)
           /\ \E i \in 1..Len(send_queue') :
                 /\ i > Len(send_queue)
                 /\ send_queue'[i].packet.op = "Disconnect"
                 /\ send_queue'[i].packet.reason = 16
      ]_vars

-----------------------------------------------------------------------------
\* number of Ack and AckAll entries of the queue
AckEntries(queue) ==
    Cardinality({ i \in 1..Len(queue) : queue[i].packet.op \in {"Ack", "AckAll"} })

(* C17: once a Disconnect has been processed, process_next handles no further  *)
(* sequenced packet: no later call advances next_client_sequence, queues an    *)
(* Ack or AckAll, or delivers a payload.                                       *)
C17_NothingSequencedAfterDisconnect ==
    [][ ( /\ disconnected
          /\ last'.call = "process_next" )
        => /\ next_client_sequence' = next_client_sequence
           /\ AckEntries(send_queue') = AckEntries(send_queue)
           /\ last'.out = << >>
      ]_vars

-----------------------------------------------------------------------------
RECURSIVE Concat(_)
Concat(seqs) == IF seqs = << >> THEN << >> ELSE Head(seqs) \o Concat(Tail(seqs))

Ceil(a, b) == (a + b - 1) \div b

\* the envelope of one sequenced packet: opcode, sequence number, CRC tail and
\* the multi-packet header byte (no session of this channel allows compression)
Envelope == 2 + 2 + (IF session.some THEN session.crc_length ELSE 0) + 1

\* the entries a send_data step has appended
Appended == SubSeq(send_queue', Len(send_queue) + 1, Len(send_queue'))

\* the entries new are what payload P must be queued as with room bytes per
\* packet, count being the number of fragments a payload that does not fit takes
QueuedAsSpecified(P, new, room, count) ==
    IF Len(P) <= room
    THEN /\ Len(new) = 1
         /\ new[1].packet.op = "Data"
         /\ new[1].packet.data = P
    ELSE LET first == new[1].packet.data
             all   == Concat([i \in 1..Len(new) |-> new[i].packet.data])
         IN  /\ Len(new) >= 1
             /\ \A i \in 1..Len(new) :
                   /\ new[i].packet.op = "DataFragment"
                   /\ Len(new[i].packet.data) <= room
             /\ Len(first) >= 4
             /\ first[1] * 16777216 + first[2] * 65536 + first[3] * 256 + first[4] = Len(P)
             /\ SubSeq(all, 5, Len(all)) = P
             /\ Len(new) = count

-----------------------------------------------------------------------------
\* number of packets send_data queues for payload P with room bytes per packet
PacketCount(P, room) == IF Len(P) <= room THEN 1 ELSE Ceil(Len(P) + 4, room)

\* the payload the k-th queued packet belongs to, and whether it is its last packet
RECURSIVE Locate(_, _, _)
Locate(payloads, k, room) ==
    LET n == PacketCount(Head(payloads), room)
    IN  IF k <= n THEN [payload |-> Head(payloads), final |-> k = n]
        ELSE Locate(Tail(payloads), k - n, room)

(* C19: fragmentation and reassembly are inverse.  When the DataFragment       *)
(* packets send_data produced for a payload P come back in order and are       *)
(* accepted one per process_next call, every fragment but the last emits       *)
(* nothing and leaves a run in progress, and the last one emits exactly one    *)
(* payload, equal to P and as long as the declared total, and leaves           *)
(* fragment_state empty.                                                       *)
C19_ReassemblyInvertsFragmentation ==
    [][ ( /\ last'.call = "process_next"
          /\ Len(receive_queue) = 1
          /\ receive_queue[1].op = "DataFragment"
          /\ receive_queue[1].seq = next_client_sequence )
        => LET at == Locate(submitted, AcceptedCount + 1, buffer_size - Envelope)
           IN  IF at.final
               THEN /\ last'.out = << at.payload >>
                    /\ Len(last'.processed) = 1
                    /\ last'.processed[1].op = "Data"
                    /\ last'.processed[1].data = at.payload
                    /\ Len(at.payload) = fragment_state.total_size
                    /\ ~fragment_state'.active
                    /\ fragment_state' = NoFragment
               ELSE /\ last'.out = << >>
                    /\ last'.processed = << >>
                    /\ fragment_state'.active
      ]_vars

\* the third and last fragment of a 14-byte payload has been accepted and the
\* payload has come out whole
C19_Witness ==
    /\ last.call = "process_next"
    /\ last.out = << Bytes(14) >>
    /\ submitted # << >>
    /\ submitted[1] = Bytes(14)
    /\ AcceptedCount = 3
    /\ fragment_state = NoFragment

-----------------------------------------------------------------------------
(* C20: unbundle(bundle(list)) is the list, in the same order; a Data payload  *)
(* that does not start with the sentinel 0x00 0x19 is one application message, *)
(* the whole payload; and process_next returns exactly the unbundled messages  *)
(* of the Data payload it delivers.                                            *)
C20_BundleRoundTrip ==
    [][ ( /\ last'.call = "process_next"
          /\ Len(receive_queue) = 1
          /\ receive_queue[1].op = "Data"
          /\ receive_queue[1].seq = next_client_sequence )
        => LET data == receive_queue[1].data
           IN  /\ \A msgs \in BundleLists : data = Bundle(msgs) => last'.out = msgs
               /\ ~(Len(data) >= 2 /\ data[1] = 0 /\ data[2] = 25) => last'.out = << data >>
               /\ last'.processed = << receive_queue[1] >>
      ]_vars

\* a bundle of three messages, one of them empty, has been delivered as three
\* messages after a payload without the sentinel had been delivered whole
C20_Witness ==
    /\ last.call = "process_next"
    /\ last.out = << << 1, 2 >>, << >>, << 0, 25 >> >>
    /\ delivered = << << 0, 24, 1 >>, << 1, 2 >>, << >>, << 0, 25 >> >>

-----------------------------------------------------------------------------
\* the threads that are executing a method of the channel at address a
Executing(a) == { t \in Threads : threads[t].pc = "executing" /\ threads[t].addr = a }

(* C21: under the lock discipline (look-ups take the map's read lock and then  *)
(* the channel's mutex; insertion and removal take the map's write lock) at    *)
(* most one thread executes a method of a given Channel at any time, and no    *)
(* Channel is removed from the map while one of its methods is executing.      *)
C21_ChannelMethodsMutuallyExclusive ==
    \A a \in Addresses :
        /\ Cardinality(Executing(a)) <= 1
        /\ Executing(a) # {} => a \in channel_manager.keys

\* two threads are executing methods of two different channels while a third
\* holds the read guard and waits for the mutex of one of them
C21_Witness ==
    /\ Executing(1) # {}
    /\ Executing(2) # {}
    /\ \E t \in Threads : threads[t].pc = "reading" /\ threads[t].addr = 1

-----------------------------------------------------------------------------
(* C22: between public calls every key s of reordered_packets is recent        *)
(* relative to the current next_client_sequence n, 1 <= (s - n) mod 2^16 <=    *)
(* recency_limit, and next_client_sequence itself is never a key.              *)
C22_ReorderedKeysAreRecent ==
    /\ next_client_sequence \notin DOMAIN reordered_packets
    /\ \A s \in DOMAIN reordered_packets :
          /\ 1 <= (s - next_client_sequence + 65536) % 65536
          /\ (s - next_client_sequence + 65536) % 65536 <= recency_limit

\* after one packet was accepted, the packet that follows the expected one is
\* kept across the sequence wrap: 0xFFFF is expected and 0 is a key
C22_Witness ==
    /\ next_client_sequence = 65535
    /\ AcceptedCount = 1
    /\ DOMAIN reordered_packets = {0}
    /\ recency_limit = 2

-----------------------------------------------------------------------------
\* the call handles the first Handled packets of receive_queue
Handled(count) == IF count < Len(receive_queue) THEN count ELSE Len(receive_queue)

\* the packet is sequenced and is not the expected one
OutOfOrder(packet) ==
    /\ packet.op \in {"Data", "DataFragment"}
    /\ packet.seq # next_client_sequence

\* how many of the first k packets of receive_queue, from the front, are out of order
RECURSIVE OutOfOrderPrefix(_, _)
OutOfOrderPrefix(i, k) ==
    IF i > k \/ ~OutOfOrder(receive_queue[i]) THEN 0 ELSE 1 + OutOfOrderPrefix(i + 1, k)

(* C23: for every sequenced packet process_next dequeues whose sequence number *)
(* s differs from next_client_sequence exactly one Ack(s) is appended to       *)
(* send_queue, inside the recency window or not; and a call that dequeues only *)
(* such packets leaves next_client_sequence, last_server_ack and               *)
(* fragment_state as they were and returns no payload.                         *)
C23_OutOfOrderPacketOnlyAcked ==
    [][ last'.call = "process_next"
        => LET k == Handled(last'.count)
               j == OutOfOrderPrefix(1, k)
               n == Len(send_queue)
           IN  /\ Len(send_queue') >= n + j
               /\ SubSeq(send_queue', 1, n) = send_queue
               /\ \A i \in 1..j :
                     send_queue'[n + i] =
                         [needs_send |-> TRUE,
                          packet |-> [op |-> "Ack", acked |-> receive_queue[i].seq]]
               /\ j = k =>
                     /\ Len(send_queue') = n + j
                     /\ next_client_sequence' = next_client_sequence
                     /\ last_server_ack' = last_server_ack
                     /\ fragment_state' = fragment_state
                     /\ last'.out = << >>
                     /\ delivered' = delivered
      ]_vars

\* one call has dequeued two packets that were not expected, one inside the
\* window and one beyond it, and has queued an Ack for each
C23_Witness ==
    /\ last.call = "process_next"
    /\ last.count = 2
    /\ recency_limit = 1
    /\ next_client_sequence = origin.client
    /\ receive_queue = << >>
    /\ DOMAIN reordered_packets = { PeerSeq(1) }
    /\ Len(send_queue) = 2
    /\ { send_queue[i].packet : i \in 1..2 } = { Ack(PeerSeq(1)), Ack(PeerSeq(2)) }

-----------------------------------------------------------------------------
(* C24: when a second out-of-order packet arrives with a sequence number   *)
(* that reordered_packets already holds, the map keeps the packet inserted *)
(* first: no process_next call changes the packet stored under a key that  *)
(* stays in the map.                                                       *)
C24_FirstInsertionWins ==
    [][ last'.call = "process_next"
        => \A s \in (DOMAIN reordered_packets) \cap (DOMAIN reordered_packets') :
              reordered_packets'[s] = reordered_packets[s]
      ]_vars

-----------------------------------------------------------------------------
\* the entries a call appended to send_queue, which held n entries before
Queued(queue, n) == SubSeq(queue, n + 1, Len(queue))

\* positions of the packets of the given kind in a sequence of queue entries
Positions(entries, op) == { i \in 1..Len(entries) : entries[i].packet.op = op }

(* C25: each process_next call appends at most one AckAll to send_queue;    *)
(* exactly one if and only if the call accepted a sequenced packet in order *)
(* (next_client_sequence moved); its value is next_client_sequence - 1      *)
(* (mod 2^16) as it stands after the call, and it comes after every Ack the *)
(* same call queued.                                                        *)
C25_OneAckAllPerCall ==
    [][ last'.call = "process_next"
        => LET n        == Len(send_queue)
               queued   == Queued(send_queue', n)
               ack_alls == Positions(queued, "AckAll")
               acks     == Positions(queued, "Ack")
           IN  /\ Len(send_queue') >= n
               /\ SubSeq(send_queue', 1, n) = send_queue
               /\ Cardinality(ack_alls) <= 1
               /\ ack_alls # {} <=> next_client_sequence' # next_client_sequence
               /\ \A i \in ack_alls :
                     /\ queued[i].packet.acked = (next_client_sequence' + 65535) % 65536
                     /\ queued[i].needs_send
                     /\ \A j \in acks : j < i
      ]_vars

\* one call has queued an Ack for sequence number 0, which came early, and then
\* the AckAll for 0xFFFF, the last packet before the wrap
C25_Witness ==
    /\ last.call = "process_next"
    /\ last.count = 2
    /\ origin.client = 65534
    /\ next_client_sequence = 0
    /\ Len(received) = 3
    /\ receive_queue = << Data(0, PeerPayload(0)) >>
    /\ [i \in 1..Len(send_queue) |-> send_queue[i].packet]
           = << AckAll(65534), Ack(0), AckAll(65535) >>

-----------------------------------------------------------------------------
\* how many of the packets the call dequeues are of the given kind
Dequeued(count, op) ==
    Cardinality({ i \in 1..Handled(count) : receive_queue[i].op = op })

(* C26: on a channel with a session, every Heartbeat that process_next       *)
(* dequeues is answered by exactly one Heartbeat appended to send_queue,     *)
(* whatever the count and whatever else the same call dequeues: a call       *)
(* appends as many Heartbeats as it dequeued.                                *)
C26_EveryHeartbeatAnswered ==
    [][ last'.call = "process_next" /\ session.some
        => Cardinality(Positions(Queued(send_queue', Len(send_queue)), "Heartbeat"))
               = Dequeued(last'.count, "Heartbeat")
      ]_vars

-----------------------------------------------------------------------------
(* C27: a SessionRequest processed on a channel whose session is already    *)
(* Some is honoured.  For a call that dequeues that request alone: session  *)
(* becomes a new Session with the request's session_id and the crc_seed     *)
(* drawn for it, buffer_size takes the request's value, one SessionReply    *)
(* carrying that session is appended behind the entries send_queue held,    *)
(* and next_client_sequence, next_server_sequence, last_server_ack,         *)
(* reordered_packets and fragment_state stay as they were.                  *)
C27_SecondSessionRequestHonoured ==
    [][ /\ last'.call = "process_next"
        /\ session.some
        /\ Handled(last'.count) = 1
        /\ receive_queue[1].op = "SessionRequest"
        => LET request == receive_queue[1]
               reply   == send_queue'[Len(send_queue')].packet
           IN  /\ Len(send_queue') = Len(send_queue) + 1
               /\ SubSeq(send_queue', 1, Len(send_queue)) = send_queue
               /\ reply.crc_seed \in SessionSeeds
               /\ send_queue'[Len(send_queue')] =
                     [needs_send |-> TRUE,
                      packet |-> [op |-> "SessionReply", session_id |-> request.session_id,
                                  crc_seed |-> reply.crc_seed, crc_length |-> 3,
                                  allow_compression |-> FALSE, use_encryption |-> FALSE,
                                  buffer_size |-> 512, protocol_version |-> 3]]
               /\ session' = [some |-> TRUE, session_id |-> request.session_id,
                              crc_seed |-> reply.crc_seed, crc_length |-> 3,
                              allow_compression |-> FALSE, use_encryption |-> FALSE]
               /\ buffer_size' = request.buffer_size
               /\ next_client_sequence' = next_client_sequence
               /\ next_server_sequence' = next_server_sequence
               /\ last_server_ack' = last_server_ack
               /\ reordered_packets' = reordered_packets
               /\ fragment_state' = fragment_state
      ]_vars

\* a second request, with another session id and another seed, has replaced the
\* session opened by the first, after the peer's first Data packet was accepted
C27_Witness ==
    /\ last.call = "process_next"
    /\ Len(last.processed) = 1
    /\ last.processed[1].op = "SessionRequest"
    /\ next_client_sequence = 1
    /\ Len(send_queue) = 3
    /\ send_queue[1].packet.op = "SessionReply"
    /\ send_queue[2].packet = AckAll(0)
    /\ send_queue[3].packet.op = "SessionReply"
    /\ send_queue[1].packet.session_id # send_queue[3].packet.session_id
    /\ send_queue[1].packet.crc_seed # send_queue[3].packet.crc_seed
    /\ session.some
    /\ session.session_id = send_queue[3].packet.session_id
    /\ session.crc_seed = send_queue[3].packet.crc_seed

-----------------------------------------------------------------------------
\* the packet process_packet handled in the call retires sequence number p:
\* an Ack(p) or an AckAll that the acceptance test of the channel lets through
Retires(processed, p) ==
    /\ processed # << >>
    /\ \/ /\ processed[1].op = "Ack"
          /\ processed[1].acked = p
          /\ AckAccepted(p)
       \/ /\ processed[1].op = "AckAll"
          /\ ShouldClientAck(recency_limit, next_server_sequence, processed[1].acked, p)

(* C28: an entry of send_queue gets needs_send = false in two ways only.  A    *)
(* sequenced entry gets it from a process_next call that processes an accepted *)
(* Ack or AckAll for its sequence number.  An unsequenced entry gets it from   *)
(* the send_next call that hands it to the codec, and since every send_next    *)
(* call first removes the entries with needs_send = false and selects among    *)
(* the rest, that call is the only one that hands it over.  receive and        *)
(* send_data clear no flag.                                                    *)
C28_ClearedEntriesAckedOrHanded ==
    [][ /\ last'.call = "send_next"
            => LET kept == SelectSeq(send_queue, NeedsSend)
                   n    == IF last'.count < Len(kept) THEN last'.count ELSE Len(kept)
               IN  /\ Len(send_queue') = Len(kept)
                   /\ last'.handed = [i \in 1..n |-> kept[i].packet]
                   /\ \A i \in 1..Len(kept) :
                         /\ send_queue'[i].packet = kept[i].packet
                         /\ ~send_queue'[i].needs_send
                                <=> (i <= n /\ ~IsSequenced(kept[i].packet))
        /\ last'.call \in {"process_next", "send_data", "receive"}
            => /\ Len(send_queue') >= Len(send_queue)
               /\ \A i \in 1..Len(send_queue') :
                     IF i > Len(send_queue) THEN send_queue'[i].needs_send
                     ELSE /\ send_queue'[i].packet = send_queue[i].packet
                          /\ ~send_queue[i].needs_send => ~send_queue'[i].needs_send
                          /\ (send_queue[i].needs_send /\ ~send_queue'[i].needs_send)
                                => /\ last'.call = "process_next"
                                   /\ IsSequenced(send_queue[i].packet)
                                   /\ Retires(last'.processed, send_queue[i].packet.seq)
      ]_vars

\* send_queue holds a Data packet retired by the peer's Ack and, behind it, an
\* AckAll that a send_next call has handed to the codec
C28_Witness ==
    /\ last.call = "process_next"
    /\ Len(send_queue) = 2
    /\ send_queue[1].packet.op = "Data"
    /\ ~send_queue[1].needs_send
    /\ send_queue[2].packet.op = "AckAll"
    /\ ~send_queue[2].needs_send

-----------------------------------------------------------------------------
-----------------------------------------------------------------------------
(* C30: when process_next is only ever called with count = 1 and the peer's *)
(* Data packets arrive in any order, repeated or not, each within the       *)
(* recency window, the payloads returned are the peer's payloads in         *)
(* sequence order, each exactly once: whenever nothing is left to process,  *)
(* every packet that has arrived has been accepted and the return values    *)
(* so far are exactly the payloads of the packets that arrived, in order.   *)
C30_OnePerCallDeliversAll ==
    Quiescent
        => /\ Arrived = { PeerSeq(i - 1) : i \in 1..AcceptedCount }
           /\ delivered = [i \in 1..AcceptedCount |-> PeerPayload(PeerSeq(i - 1))]

-----------------------------------------------------------------------------
\* p was sent after s: it is later than s in wrap order
SentAfter(p, s) ==
    /\ 0 < (p - s + 65536) % 65536
    /\ (p - s + 65536) % 65536 < 32768

(* C31: processing AckAll(s) never retires a packet sent after s: no entry  *)
(* of send_queue whose sequence number is later than s in wrap order has    *)
(* its needs_send set to false by the call, also when the AckAll is stale   *)
(* and s lies below next_server_sequence - recency_limit.                   *)
C31_AckAllRetiresNothingLater ==
    [][ ( /\ last'.call = "process_next"
          /\ last'.processed # << >>
          /\ last'.processed[1].op = "AckAll" )
        => \A i \in 1..Len(send_queue) :
              ( /\ IsSequenced(send_queue[i].packet)
                /\ SentAfter(send_queue[i].packet.seq, last'.processed[1].acked) )
              => send_queue'[i].needs_send = send_queue[i].needs_send
      ]_vars

-----------------------------------------------------------------------------
\* the payload of the peer's packet s has been returned, or the channel still
\* holds it in receive_queue or in the fragment buffer
ReturnedOrHeld(s) ==
    \/ Occurrences(delivered, PeerPayload(s)) >= 1
    \/ \E i \in 1..Len(receive_queue) :
          SequenceNumber(receive_queue[i]) = << s >>
    \/ fragment_state.active

(* C32: the channel acknowledges only what it keeps.  Whenever an AckAll(a) *)
(* is in send_queue, the payload of every packet of the peer with sequence  *)
(* number up to a has been returned by process_next or is still held in     *)
(* receive_queue or fragment_state.                                         *)
C32_AcknowledgedIsKept ==
    \A j \in 1..Len(send_queue) :
        send_queue[j].packet.op = "AckAll"
            => \A d \in 0..WrappingSub(send_queue[j].packet.acked, origin.client) :
                  ReturnedOrHeld(PeerSeq(d))

-----------------------------------------------------------------------------
(* C33: processing Ack(p) sets needs_send to false for every sequenced      *)
(* entry of send_queue that carries p and still has needs_send = true,      *)
(* however many sequenced packets have been queued since p was assigned.    *)
C33_AckRetiresOutstandingEntry ==
    [][ ( /\ last'.call = "process_next"
          /\ last'.processed # << >>
          /\ last'.processed[1].op = "Ack" )
        => \A i \in 1..Len(send_queue) :
              ( /\ IsUnacked(send_queue[i])
                /\ send_queue[i].packet.seq = last'.processed[1].acked )
              => ~send_queue'[i].needs_send
      ]_vars

-----------------------------------------------------------------------------
(* C34: liveness of the send path.  While the host keeps calling send_next  *)
(* with its fixed count, the peer acknowledges every sequenced packet it is *)
(* handed and every Ack is processed, every entry placed in send_queue is   *)
(* eventually handed to the codec and removed: send_queue is empty again    *)
(* and again, no entry stays behind unacked entries at its head.            *)
C34_SendQueueDrains == []<>(send_queue = << >>)

-----------------------------------------------------------------------------
(* C35: send_data never assigns a sequence number that an entry of          *)
(* send_queue with needs_send = true still carries: the unacked sequenced   *)
(* entries have pairwise distinct sequence numbers at all times, also after *)
(* next_server_sequence has wrapped around.                                 *)
C35_UnackedSequencesDistinct ==
    \A i, j \in 1..Len(send_queue) :
        ( /\ i # j
          /\ IsUnacked(send_queue[i])
          /\ IsUnacked(send_queue[j]) )
        => send_queue[i].packet.seq # send_queue[j].packet.seq

-----------------------------------------------------------------------------
(* C36: after a SessionRequest has been processed, the channel's buffer_size *)
(* equals the buffer size advertised in the SessionReply that the call       *)
(* queued, whatever size the peer requested.                                 *)
C36_BufferSizeAsAdvertised ==
    [][ ( /\ last'.call = "process_next"
          /\ last'.processed # << >>
          /\ last'.processed[1].op = "SessionRequest" )
        => /\ send_queue' # << >>
           /\ send_queue'[Len(send_queue')].packet.op = "SessionReply"
           /\ buffer_size' = send_queue'[Len(send_queue')].packet.buffer_size
      ]_vars

-----------------------------------------------------------------------------
(* C37: after any sequence of receive and process_next calls the number of *)
(* packets held in reordered_packets is at most recency_limit, whatever    *)
(* sequence numbers the peer sends.                                        *)
C37_ReorderBufferBounded ==
    Cardinality(DOMAIN reordered_packets) <= recency_limit

\* the buffer is full with the two packets of the window, and a third packet,
\* just beyond the window, has been processed and was not kept
C37_Witness ==
    /\ recency_limit = 2
    /\ next_client_sequence = 0
    /\ DOMAIN reordered_packets = {1, 2}
    /\ receive_queue = << >>
    /\ \E i \in 1..Len(send_queue) : send_queue[i].packet = Ack(3)

-----------------------------------------------------------------------------
\* the zones whose character table holds the player
ZonesHolding(p) == { z \in DOMAIN zones : p \in DOMAIN zones[z] }

\* a handler is inside teleport_to_zone for the player
Teleporting(p) ==
    \E r \in BagToSet(requests) : r.player = p /\ r.pc \in {"teleporting", "removed"}

(* C38: teleport_to_zone never loses a character: whenever no call of       *)
(* teleport_to_zone is in progress for a player, the player's character is  *)
(* in exactly one zone's character table, and no interact_with_character or *)
(* process_dismount request, concurrent or later, fails because it found    *)
(* the character in no zone.                                                *)
C38_TeleportKeepsCharacter ==
    /\ \A p \in Players : ~Teleporting(p) => Cardinality(ZonesHolding(p)) = 1
    /\ ~( /\ last.call \in {"interact_with_character", "process_dismount"}
          /\ ~last.ok )

-----------------------------------------------------------------------------
\* the mount_id of the player's character: in the zones' tables, or in the
\* hands of a teleport_to_zone that has removed it
MountIdsOf(zs, running, p) ==
    { zs[z][p].mount_id : z \in { y \in DOMAIN zs : p \in DOMAIN zs[y] } }
    \cup { r.character[1].mount_id :
             r \in { q \in BagToSet(running) : q.player = p /\ q.character # << >> } }

\* the step changes the mount_id of the player's character
MountIdChanged(p) ==
    /\ MountIdsOf(zones, requests, p) # {}
    /\ MountIdsOf(zones', requests', p) # {}
    /\ MountIdsOf(zones, requests, p) # MountIdsOf(zones', requests', p)

\* the step is a return of the call for the player
GameReturned(call, p) ==
    /\ last'.call = call
    /\ last'.arg[1] = p
    /\ \/ last' # last
       \/ BagCardinality(requests') < BagCardinality(requests)

\* the step is process_mount_spawn mounting the player's unmounted character
\* on a known mount
Mounted(p) ==
    /\ GameReturned("process_mount_spawn", p)
    /\ last'.ok
    /\ last'.count = 1
    /\ last'.arg[2] \in MountIds
    /\ MountIdsOf(zones, requests, p) = { << >> }
    /\ MountIdsOf(zones', requests', p) = { << last'.arg[2] >> }

\* the step is process_dismount dismounting the player's mounted character
Dismounted(p) ==
    /\ GameReturned("process_dismount", p)
    /\ last'.ok
    /\ \E m \in RequestedMountIds : MountIdsOf(zones, requests, p) = { << m >> }
    /\ MountIdsOf(zones', requests', p) = { << >> }

-----------------------------------------------------------------------------
(* C40: after any process_next call that accepted at least one in-order   *)
(* sequenced packet, last_client_ack is the highest inbound sequence       *)
(* number delivered contiguously: next_client_sequence - 1 modulo 2^16.    *)
C40_LastClientAckFollows ==
    [][ ( /\ last'.call = "process_next"
          /\ next_client_sequence' # next_client_sequence )
        => last_client_ack' = WrappingSub(next_client_sequence', 1)
      ]_vars

=============================================================================
